---- MODULE Spec2Model ----
(***************************************************************************)
(* Model of gaselect's MultiThreadedPopulation (MultiThreadedPopulation.cpp *)
(* in src/unnamed/part_001), in several specifications over one state:     *)
(*                                                                         *)
(*   Spec / FairSpec  the threads: the set-up loop of run(), the           *)
(*       generation loop, the start/finished barrier, the index walk of    *)
(*       mate() over its range, the shutdown and the joins;                *)
(*   PairSpec  the fitness decisions of one pass of mate()'s outer loop    *)
(*       (parents, children, improvement retries, abandonment);            *)
(*   ChromSpec  the Chromosome operations on bit sets;                     *)
(*   SetupSpec  the constructor and the seeding loop of run();             *)
(*   StreamSpec  the first generation with the content of the chromosomes; *)
(*   CallSpec / FairCallSpec  one call of mate() statement by statement,   *)
(*       with the chromosomes of its range and every outcome of a random   *)
(*       draw, and the call of the generation after it.                    *)
(*                                                                         *)
(* In Spec every critical section (pthread_mutex_lock up to                *)
(* pthread_mutex_unlock or to pthread_cond_wait) is one atomic step.  A    *)
(* thread inside pthread_cond_wait is at a pc whose step is enabled when   *)
(* the awaited flag holds; both flags only change under the mutex together *)
(* with a broadcast, so no wake-up is lost, and a spurious wake-up         *)
(* re-reads the flag and changes nothing.                                  *)
(***************************************************************************)
EXTENDS Integers, FiniteSets, Sequences, TLC

(* ---- bounds of the model ---- *)
MaxThreads == 3
MaxPopulation == 5
MaxGenerations == 2
MaxDupTries == 1
MaxMatingTries == 2
MaxChromosomeSize == 3
MaxSeedPopulation == 3
MaxRejected == 2
MaxSeed == 6
MaxIterations == 40
MaxChildren == 2

MainThread == -1

VARIABLES
    (* configuration (Control), fixed during a run *)
    numThreads, populationSize, numGenerations, maxDuplicateEliminationTries,
    (* locals of run() *)
    mainPc, i, remainingChildren, numChildrenMainThread, offset, threadArgs,
    interrupted,
    (* members of MultiThreadedPopulation *)
    startMating, allThreadsFinishedMating, killThreads,
    actuallySpawnedThreads, numThreadsFinishedMating,
    (* the spawned threads: position of each in matingThreadStart/runMating *)
    wpc,
    (* locals of mate(), one copy per thread *)
    child1It, child2It, child1Tries, child2Tries,
    (* history, per thread: indices written / finalized by the current call  *)
    (* of mate(), number of calls of mate() entered and of barrier arrivals  *)
    written, finalized, mateRound, arrivedRound,
    (* history: per thread the most recent iteration of mate()'s outer loop  *)
    (* in the current call; per RNG and per Evaluator instance the threads   *)
    (* that have used it                                                     *)
    lastIter, rngUsers, evalUsers,
    (* the content of one generation (StreamSpec): the seed the population   *)
    (* was constructed with, the state of every RNG instance, the current    *)
    (* generation the parents are drawn from, per thread the slots that were *)
    (* reset with randomlyReset(); nextGeneration is listed further down     *)
    seed, rngState, currentGeneration, forced,
    (* one pass of mate()'s outer loop over the fitness values (PairSpec):   *)
    (* Control values, position in the loop body, locals of mate()           *)
    badSolutionThreshold, maxMatingTries, pairPc,
    parent1Fitness, parent2Fitness, minParentFitness,
    child1Fitness, child2Fitness, matingTries,
    (* history of the pass: what the last check of a proposal did with it,   *)
    (* number of calls of mateWith() at line 198 for the current parents     *)
    adoption, rematings,
    (* the Chromosome operations on bit sets (ChromSpec): Control values,    *)
    (* two parents, the two children they are mated into, the operation      *)
    (* that ran last and the chromosomes it produced                         *)
    minVariables, maxVariables, parentA, parentB, childA, childB,
    lastOp, produced,
    (* the constructor and the seeding loop of run() (SetupSpec): position,  *)
    (* the synchronization primitives that are initialized, the chromosomes  *)
    (* pushed to nextGeneration, the arguments of the calls of evaluate()    *)
    (* and of addChromosomeToElite() in order, whether the last candidate    *)
    (* was deleted as a duplicate                                            *)
    setupPc, initialized, nextGeneration, evaluated, elite, rejected,
    (* one call of mate() with the content of its range (CallSpec): position *)
    (* in the body, the arguments and locals of the call, the chromosomes    *)
    (* of the range with the fitness stored in each, the arguments of the    *)
    (* calls of evaluate() in the last step; history: what the last step     *)
    (* did, how many proposal children it skipped, whether a child without   *)
    (* variables was replaced by a copy for the current parents; the fitness *)
    (* stored in each chromosome of currentGeneration                        *)
    callPc, call, range, evalArgs, lastStep, currentFitness

vars == <<numThreads, populationSize, numGenerations, maxDuplicateEliminationTries,
          mainPc, i, remainingChildren, numChildrenMainThread, offset, threadArgs,
          interrupted, startMating, allThreadsFinishedMating, killThreads,
          actuallySpawnedThreads, numThreadsFinishedMating, wpc,
          child1It, child2It, child1Tries, child2Tries,
          written, finalized, mateRound, arrivedRound,
          lastIter, rngUsers, evalUsers,
          seed, rngState, currentGeneration, forced,
          badSolutionThreshold, maxMatingTries, pairPc,
          parent1Fitness, parent2Fitness, minParentFitness,
          child1Fitness, child2Fitness, matingTries, adoption, rematings,
          minVariables, maxVariables, parentA, parentB, childA, childB,
          lastOp, produced,
          setupPc, initialized, nextGeneration, evaluated, elite, rejected,
          callPc, call, range, evalArgs, lastStep, currentFitness>>

cfgVars == <<numThreads, populationSize, numGenerations, maxDuplicateEliminationTries>>
spawnVars == <<remainingChildren, numChildrenMainThread, offset, threadArgs,
               actuallySpawnedThreads>>
flagVars == <<startMating, allThreadsFinishedMating, killThreads,
              numThreadsFinishedMating>>
pairVars == <<badSolutionThreshold, maxMatingTries, pairPc,
              parent1Fitness, parent2Fitness, minParentFitness,
              child1Fitness, child2Fitness, matingTries, adoption, rematings>>
chromVars == <<minVariables, maxVariables, parentA, parentB, childA, childB,
               lastOp, produced>>
setupVars == <<setupPc, initialized, nextGeneration, evaluated, elite, rejected>>
histVars == <<lastIter, rngUsers, evalUsers>>
callVars == <<callPc, call, range, evalArgs, lastStep, currentFitness>>
streamVars == <<seed, rngState, currentGeneration, forced>>
mateVars == <<child1It, child2It, child1Tries, child2Tries, written, finalized>>

(* ---- run(): locals set at lines 316-320 ---- *)
maxThreadsToSpawn == numThreads - 1
numChildrenPerThread == populationSize \div numThreads
Workers == 0 .. (MaxThreads - 2)
AllThreads == Workers \cup {MainThread}

(* the threads that exist: pthread_create returned 0 for them *)
Spawned == {w \in Workers : wpc[w] # "none"}
Participants == Spawned \cup {MainThread}

Pc(t) == IF t = MainThread THEN mainPc ELSE wpc[t]

(* the arguments mate() is called with by thread t (lines 451, 525, 554) *)
NumChildrenOf(t) == IF t = MainThread THEN numChildrenMainThread
                    ELSE threadArgs[t].numChildren
OffsetOf(t) == IF t = MainThread THEN offset ELSE threadArgs[t].offset
RangeOf(t) == OffsetOf(t) .. (OffsetOf(t) + NumChildrenOf(t) - 1)

(* ---- the RNG and Evaluator instances ---- *)
(* An instance is named by the thread it is made for: the RNG of run()     *)
(* (line 311) and the Evaluator the population was constructed with by the *)
(* invoking thread, the RNG built in matingThreadStart (line 523) and the  *)
(* Evaluator cloned at line 392 by the index of the worker.                *)
RunRng == MainThread
OriginalEvaluator == MainThread
Unset == MainThread - 1

(* ---- RNG: a deterministic stream of numbers for every seed ---- *)
(* The generator of RNG.h has a state of 624 words; the model keeps what   *)
(* matters here, that the next number and the next state are a function of *)
(* the state of this instance alone, with a multiplicative congruential    *)
(* generator of full period over 1 .. RngModulus-1.                        *)
RngModulus == 97
RngMultiplier == 5

(* RNG::operator()(): the next number of the stream, which is also the     *)
(* state it leaves                                                         *)
RngNext(state) == (RngMultiplier * state) % RngModulus

(* the state of an RNG after n numbers were drawn from it *)
RECURSIVE RngAfter(_, _)
RngAfter(state, n) == IF n = 0 THEN state ELSE RngAfter(RngNext(state), n - 1)

(* threadArgs[w] before the set-up loop has filled it *)
NoArgs == [numChildren |-> 0, offset |-> 0, seed |-> 0, evalObj |-> Unset]

(* no iteration of the outer loop has run in the current call of mate() *)
NoIteration ==
    [kind |-> "none", c1 |-> 0, c2 |-> 0, mutated |-> FALSE,
     dup1 |-> FALSE, dup2 |-> FALSE, reset1 |-> FALSE, reset2 |-> FALSE,
     run1 |-> 0, run2 |-> 0, polls |-> 0]

(* no thread of run() is followed: the state the constructor leaves, lines  *)
(* 122-127, without the content of the current generation                   *)
ThreadsUnstarted ==
    /\ mainPc = "idle"
    /\ i = 0
    /\ remainingChildren = 0
    /\ numChildrenMainThread = 0
    /\ offset = 0
    /\ threadArgs = [w \in Workers |-> NoArgs]
    /\ interrupted = FALSE
    /\ startMating = FALSE
    /\ allThreadsFinishedMating = FALSE
    /\ killThreads = FALSE
    /\ actuallySpawnedThreads = 0
    /\ numThreadsFinishedMating = 0
    /\ wpc = [w \in Workers |-> "none"]
    /\ child1It = [t \in AllThreads |-> 0]
    /\ child2It = [t \in AllThreads |-> 0]
    /\ child1Tries = [t \in AllThreads |-> 0]
    /\ child2Tries = [t \in AllThreads |-> 0]
    /\ written = [t \in AllThreads |-> {}]
    /\ finalized = [t \in AllThreads |-> {}]
    /\ mateRound = [t \in AllThreads |-> 0]
    /\ arrivedRound = [t \in AllThreads |-> 0]
    /\ lastIter = [t \in AllThreads |-> NoIteration]
    /\ rngUsers = [r \in AllThreads |-> {}]
    /\ evalUsers = [e \in AllThreads |-> {}]
    /\ seed = 1
    /\ rngState = [r \in AllThreads |-> 0]
    /\ forced = [t \in AllThreads |-> {}]

(* run() has not been called and there is no current generation yet *)
RunNotCalled ==
    /\ ThreadsUnstarted
    /\ currentGeneration = <<>>

ThreadsIdle ==
    /\ numThreads = 2 /\ populationSize = 2 /\ numGenerations = 1
    /\ maxDuplicateEliminationTries = 0
    /\ RunNotCalled

(* the locals of a call of mate() that has not begun *)
PairIdle ==
    /\ badSolutionThreshold = 0
    /\ maxMatingTries = 0
    /\ pairPc = "idle"
    /\ parent1Fitness = 0
    /\ parent2Fitness = 0
    /\ minParentFitness = 0
    /\ child1Fitness = 0
    /\ child2Fitness = 0
    /\ matingTries = 0
    /\ adoption = "none"
    /\ rematings = 0

(* no Chromosome operation has run *)
ChromIdle ==
    /\ minVariables = 1
    /\ maxVariables = 1
    /\ parentA = {}
    /\ parentB = {}
    /\ childA = {}
    /\ childB = {}
    /\ lastOp = "none"
    /\ produced = {}

(* the arguments and locals of a call of mate() that has not begun *)
NoCall ==
    [evaluator |-> "none", numChildren |-> 0, generation |-> 0,
     child1It |-> 0, child2It |-> 0, child1Tries |-> 0, child2Tries |-> 0,
     matingTries |-> 0, tmpChromosome1 |-> 0, tmpChromosome2 |-> 0,
     minParentFitness |-> 0, child1Mutated |-> FALSE, child2Mutated |-> FALSE,
     duplicated |-> [first |-> FALSE, second |-> FALSE]]

NoStep == [op |-> "none", skipped |-> 0, filled |-> FALSE]

(* no call of mate() is followed with its content *)
CallIdle ==
    /\ callPc = "idle"
    /\ call = NoCall
    /\ range = <<>>
    /\ evalArgs = {}
    /\ lastStep = NoStep
    /\ currentFitness = <<>>

(* run() is past its seeding loop: the object is constructed, the content  *)
(* of nextGeneration is not followed                                       *)
SetupIdle ==
    /\ setupPc = "idle"
    /\ initialized = {"syncMutex", "startMatingCond", "allThreadsFinishedMatingCond"}
    /\ nextGeneration = <<>>
    /\ evaluated = <<>>
    /\ elite = <<>>
    /\ rejected = 0

(* run() at line 382, before the first iteration of the set-up loop; the   *)
(* configuration and the seed are given                                    *)
RunStart ==
    /\ mainPc = "spawn"
    /\ i = maxThreadsToSpawn - 1
    /\ remainingChildren = populationSize % numThreads
    /\ numChildrenMainThread = numChildrenPerThread
    /\ offset = 0
    /\ threadArgs = [w \in Workers |-> NoArgs]
    /\ interrupted = FALSE
    /\ startMating = FALSE
    /\ allThreadsFinishedMating = FALSE
    /\ killThreads = FALSE
    /\ actuallySpawnedThreads = 0
    /\ numThreadsFinishedMating = 0
    /\ wpc = [w \in Workers |-> "none"]
    /\ child1It = [t \in AllThreads |-> 0]
    /\ child2It = [t \in AllThreads |-> 0]
    /\ child1Tries = [t \in AllThreads |-> 0]
    /\ child2Tries = [t \in AllThreads |-> 0]
    /\ written = [t \in AllThreads |-> {}]
    /\ finalized = [t \in AllThreads |-> {}]
    /\ mateRound = [t \in AllThreads |-> 0]
    /\ arrivedRound = [t \in AllThreads |-> 0]
    /\ lastIter = [t \in AllThreads |-> NoIteration]
    /\ rngUsers = [r \in AllThreads |-> {}]
    /\ evalUsers = [e \in AllThreads |-> {}]
    (* line 311: RNG rng(this->seed) *)
    /\ rngState = [r \in AllThreads |-> IF r = RunRng THEN seed ELSE 0]
    /\ forced = [t \in AllThreads |-> {}]

Init ==
    /\ PairIdle
    /\ ChromIdle
    /\ SetupIdle
    /\ CallIdle
    /\ numThreads \in 2 .. MaxThreads
    /\ populationSize \in 2 .. MaxPopulation
    (* every thread gets at least one slot: with fewer chromosomes than      *)
    (* threads, line 150 dereferences nextGeneration.end()                   *)
    /\ populationSize >= numThreads
    /\ numGenerations \in 1 .. MaxGenerations
    /\ maxDuplicateEliminationTries \in 0 .. MaxDupTries
    /\ seed = 1
    /\ currentGeneration = <<>>
    /\ RunStart

(* ---- run(), lines 382-404: one iteration of the thread set-up loop ---- *)
ThreadNumChildren(perThread, remaining) ==
    IF remaining > 0 THEN perThread + 1 ELSE perThread

(* mutant: the offset is not moved past the range of a created thread *)
OffsetAfterCreate_NotAdvanced(off, nc, created) == off

OffsetAfterCreate(off, nc, created) == IF created THEN off + nc ELSE off

(* mutant: the share of a thread that could not be created is dropped *)
MainChildrenAfterCreate_Dropped(mainChildren, nc, created) == mainChildren

MainChildrenAfterCreate(mainChildren, nc, created) ==
    IF created THEN mainChildren ELSE mainChildren + nc

(* line 392: this->evaluator.clone() makes a new instance for the thread   *)
ClonedEvaluator(original, index) == index

SpawnThread ==
    /\ mainPc = "spawn"
    /\ i >= 0
    /\ \E created \in BOOLEAN :
         LET nc == ThreadNumChildren(numChildrenPerThread, remainingChildren) IN
         /\ remainingChildren' = IF remainingChildren > 0 THEN remainingChildren - 1
                                 ELSE remainingChildren
         /\ threadArgs' = [threadArgs EXCEPT ![i] =
                [numChildren |-> nc, offset |-> offset,
                 seed |-> RngNext(rngState[RunRng]),
                 evalObj |-> ClonedEvaluator(OriginalEvaluator, i)]]
         (* line 391: rng(); line 523: the thread builds its RNG from the    *)
         (* seed in its arguments                                            *)
         /\ rngState' = [rngState EXCEPT
                ![RunRng] = RngNext(@),
                ![i] = IF created THEN RngNext(rngState[RunRng]) ELSE @]
         (* rng() and evaluator.clone() are calls on the instances of run() *)
         /\ rngUsers' = [rngUsers EXCEPT ![RunRng] = @ \cup {MainThread}]
         /\ evalUsers' = [evalUsers EXCEPT ![OriginalEvaluator] = @ \cup {MainThread}]
         /\ actuallySpawnedThreads' = IF created THEN actuallySpawnedThreads + 1
                                      ELSE actuallySpawnedThreads
         /\ offset' = OffsetAfterCreate(offset, nc, created)
         /\ numChildrenMainThread' = MainChildrenAfterCreate(numChildrenMainThread, nc, created)
         /\ wpc' = IF created THEN [wpc EXCEPT ![i] = "start"] ELSE wpc
    /\ i' = i - 1
    /\ UNCHANGED <<callVars, lastIter, seed, currentGeneration, forced, setupVars, chromVars,
                   pairVars, cfgVars, mainPc, interrupted, flagVars, mateVars,
                   mateRound, arrivedRound>>

(* run(), lines 404-420: the set-up loop ends, the generation loop begins *)
SpawnDone ==
    /\ mainPc = "spawn"
    /\ i < 0
    /\ mainPc' = "genLoop"
    /\ i' = numGenerations
    /\ UNCHANGED <<callVars, histVars, streamVars, setupVars, chromVars, pairVars, cfgVars, spawnVars, interrupted, flagVars, wpc, mateVars,
                   mateRound, arrivedRound>>

(* ---- mate(), lines 143-158: iterators and loop condition ---- *)
(* child2It is a reverse iterator; the model keeps the index of the element *)
(* it refers to, so child2It.base() is child2It + 1.                        *)
MateLoopCond(c1, c2) == c1 # c2 + 1 /\ c1 # c2

EnterMate(t) ==
    /\ child1It' = [child1It EXCEPT ![t] = OffsetOf(t)]
    /\ child2It' = [child2It EXCEPT ![t] = OffsetOf(t) + NumChildrenOf(t) - 1]
    /\ child1Tries' = [child1Tries EXCEPT ![t] = 0]
    /\ child2Tries' = [child2Tries EXCEPT ![t] = 0]
    /\ written' = [written EXCEPT ![t] = {}]
    /\ finalized' = [finalized EXCEPT ![t] = {}]
    /\ mateRound' = [mateRound EXCEPT ![t] = @ + 1]
    /\ lastIter' = [lastIter EXCEPT ![t] = NoIteration]

(* ---- run(), lines 420-451: start of one generation ---- *)
StartGeneration ==
    /\ mainPc = "genLoop"
    /\ i > 0 /\ ~interrupted
    /\ startMating' = TRUE
    /\ mainPc' = "mate"
    /\ EnterMate(MainThread)
    /\ UNCHANGED <<callVars, rngUsers, evalUsers, streamVars, setupVars, chromVars, pairVars, cfgVars, i, spawnVars, interrupted, allThreadsFinishedMating,
                   killThreads, numThreadsFinishedMating, wpc, arrivedRound>>

(* ---- runMating(), lines 535-554: wait for start, exit or mate ---- *)
(* mutant: the worker does not look at killThreads *)
LeavesLoop_Never(kill) == FALSE

(* lines 546-549: if(this->killThreads == true) { unlock; break; } *)
LeavesLoop(kill) == kill = TRUE

WorkerStart(w) ==
    /\ wpc[w] = "start"
    /\ startMating
    /\ IF LeavesLoop(killThreads)
         THEN /\ wpc' = [wpc EXCEPT ![w] = "exited"]
              /\ UNCHANGED <<mateVars, mateRound, lastIter>>
         ELSE /\ wpc' = [wpc EXCEPT ![w] = "mate"]
              /\ EnterMate(w)
    /\ UNCHANGED <<callVars, rngUsers, evalUsers, streamVars, setupVars, chromVars, pairVars, cfgVars, mainPc, i, spawnVars, interrupted, flagVars, arrivedRound>>

(* ---- the arguments rng, evaluator and checkUserInterrupt of mate() ---- *)
(* mutant: the worker is handed the RNG of run() *)
RngOf_RunLocal(t) == RunRng

(* line 451: the invoking thread passes the rng of run(); lines 523-525:   *)
(* a worker passes the RNG it has built from args->seed                    *)
RngOf(t) == IF t = MainThread THEN RunRng ELSE t

(* line 451: this->evaluator; line 525: *args->evalObj *)
EvaluatorOf(t) == IF t = MainThread THEN OriginalEvaluator ELSE threadArgs[t].evalObj

(* line 451: true; line 554: false *)
CheckUserInterrupt(t) == t = MainThread

(* ---- mate(), lines 252-288: what the duplicate check does to one child ---- *)
(* ++childTries is evaluated only when the child is a duplicate (the || is  *)
(* short-circuit); childTries is a uint8_t.                                 *)
TriesAfterCheck(dup, tries) == IF dup THEN (tries + 1) % 256 ELSE tries

(* mutant: the child already advances when its counter reaches the limit *)
ChildAdvances_AtLimit(dup, tries, maxTries) ==
    (~dup) \/ TriesAfterCheck(dup, tries) >= maxTries

ChildAdvances(dup, tries, maxTries) ==
    (~dup) \/ TriesAfterCheck(dup, tries) > maxTries

(* lines 255 and 273: inside the branch that advances, the child is reset   *)
(* when its counter is above maxDuplicateEliminationTries                   *)
ChildReset(dup, tries, maxTries) ==
    ChildAdvances(dup, tries, maxTries) /\ TriesAfterCheck(dup, tries) > maxTries

(* lines 237-243 and 293-299: how often check_interrupt() is evaluated in   *)
(* one iteration; the continue of an abandoned pair skips the rest of the   *)
(* loop body                                                                *)
PollsInIteration(checkUserInterrupt, abandon) ==
    IF checkUserInterrupt /\ ~abandon THEN 1 ELSE 0

(* mutant: an abandoned pair goes on to mutation and the duplicate check *)
SkipsRestOfBody_Never(abandon) == FALSE

(* lines 237-243: continue, the rest of the loop body (lines 245-299) is    *)
(* skipped for an abandoned pair                                            *)
SkipsRestOfBody(abandon) == abandon

(* ---- mate(), lines 158-300: one iteration of the outer loop ---- *)
MateIteration(t) ==
    /\ Pc(t) = "mate"
    /\ MateLoopCond(child1It[t], child2It[t])
    /\ \E abandon \in BOOLEAN, dup1 \in BOOLEAN, dup2 \in BOOLEAN, intr \in BOOLEAN :
         LET c1 == child1It[t]
             c2 == child2It[t]
             adv1 == ChildAdvances(dup1, child1Tries[t], maxDuplicateEliminationTries)
             adv2 == ChildAdvances(dup2, child2Tries[t], maxDuplicateEliminationTries)
         IN
         (* a child can only duplicate a finalized slot of the range or, for *)
         (* child2, child1 itself                                            *)
         /\ dup1 => finalized[t] # {}
         /\ abandon => (~dup1 /\ ~dup2 /\ ~intr)
         /\ intr => CheckUserInterrupt(t)
         /\ written' = [written EXCEPT ![t] = @ \cup {c1, c2}]
         /\ rngUsers' = [rngUsers EXCEPT ![RngOf(t)] = @ \cup {t}]
         /\ evalUsers' = [evalUsers EXCEPT ![EvaluatorOf(t)] = @ \cup {t}]
         /\ lastIter' = [lastIter EXCEPT ![t] =
               [kind |-> IF abandon THEN "abandoned" ELSE "kept",
                c1 |-> c1, c2 |-> c2,
                mutated |-> ~SkipsRestOfBody(abandon),
                dup1 |-> dup1, dup2 |-> dup2,
                reset1 |-> ~SkipsRestOfBody(abandon) /\ ChildReset(dup1, child1Tries[t],
                                                  maxDuplicateEliminationTries),
                reset2 |-> ~SkipsRestOfBody(abandon) /\ ChildReset(dup2, child2Tries[t],
                                                  maxDuplicateEliminationTries),
                run1 |-> IF SkipsRestOfBody(abandon) THEN @.run1
                         ELSE IF adv1 THEN 0 ELSE @.run1 + 1,
                run2 |-> IF SkipsRestOfBody(abandon) THEN @.run2
                         ELSE IF adv2 THEN 0 ELSE @.run2 + 1,
                polls |-> PollsInIteration(CheckUserInterrupt(t), abandon)]]
         /\ IF SkipsRestOfBody(abandon)
              THEN UNCHANGED <<child1It, child2It, child1Tries, child2Tries,
                               finalized, mainPc, interrupted>>
              ELSE /\ child1It' = [child1It EXCEPT ![t] = IF adv1 THEN c1 + 1 ELSE c1]
                   /\ child1Tries' = [child1Tries EXCEPT ![t] =
                          IF adv1 THEN 0 ELSE TriesAfterCheck(dup1, @)]
                   /\ child2It' = [child2It EXCEPT ![t] = IF adv2 THEN c2 - 1 ELSE c2]
                   /\ child2Tries' = [child2Tries EXCEPT ![t] =
                          IF adv2 THEN 0 ELSE TriesAfterCheck(dup2, @)]
                   /\ finalized' = [finalized EXCEPT ![t] =
                          @ \cup (IF adv1 THEN {c1} ELSE {}) \cup (IF adv2 THEN {c2} ELSE {})]
                   (* lines 293-299 and 452-454: InterruptException, caught by run() *)
                   /\ interrupted' = (interrupted \/ intr)
                   /\ mainPc' = IF intr THEN "arrive" ELSE mainPc
    /\ UNCHANGED <<callVars, streamVars, setupVars, chromVars, pairVars, cfgVars, i, spawnVars, flagVars, wpc, mateRound, arrivedRound>>

(* mate(), lines 158 and 302-304: the loop condition fails, mate() returns *)
MateReturn(t) ==
    /\ Pc(t) = "mate"
    /\ ~MateLoopCond(child1It[t], child2It[t])
    /\ IF t = MainThread
         THEN mainPc' = "arrive" /\ UNCHANGED wpc
         ELSE wpc' = [wpc EXCEPT ![t] = "arrive"] /\ UNCHANGED mainPc
    /\ UNCHANGED <<callVars, histVars, streamVars, setupVars, chromVars, pairVars, cfgVars, i, spawnVars, interrupted, flagVars, mateVars,
                   mateRound, arrivedRound>>

(* ---- waitForAllThreadsToFinishMating(), lines 564-586 ---- *)
(* mutant: >= instead of >, the invoking thread is not counted *)
AllHaveArrived_WithoutMain(finishedCount, spawnedCount) == finishedCount >= spawnedCount

AllHaveArrived(finishedCount, spawnedCount) == finishedCount > spawnedCount

(* where a thread goes on when it returns from the barrier *)
AfterBarrier(t) == IF t = MainThread THEN "update" ELSE "start"

(* lines 564-585, up to the first pthread_cond_wait or to the unlock: the   *)
(* thread that finds the counter above actuallySpawnedThreads sets the flag *)
(* and falls through its own while loop without releasing the mutex; every  *)
(* other thread clears the flag and blocks in pthread_cond_wait.            *)
ArriveAtBarrier(t) ==
    /\ Pc(t) = "arrive"
    /\ LET last == AllHaveArrived(numThreadsFinishedMating + 1, actuallySpawnedThreads)
           to == IF last THEN AfterBarrier(t) ELSE "finWait"
       IN
       /\ IF last
            THEN /\ allThreadsFinishedMating' = TRUE
                 /\ numThreadsFinishedMating' = 0
                 /\ startMating' = FALSE
            ELSE /\ allThreadsFinishedMating' = FALSE
                 /\ numThreadsFinishedMating' = numThreadsFinishedMating + 1
                 /\ UNCHANGED startMating
       /\ IF t = MainThread
            THEN mainPc' = to /\ UNCHANGED wpc
            ELSE wpc' = [wpc EXCEPT ![t] = to] /\ UNCHANGED mainPc
    /\ arrivedRound' = [arrivedRound EXCEPT ![t] = @ + 1]
    /\ UNCHANGED <<callVars, histVars, streamVars, setupVars, chromVars, pairVars, cfgVars, i, spawnVars, interrupted, killThreads, mateVars, mateRound>>

(* mutant: the flag is not re-read after pthread_cond_wait *)
StillWaiting_NotReRead(allFinished) == FALSE

(* waitForAllThreadsToFinishMating(), line 581: the condition of the wait loop *)
StillWaiting(allFinished) == allFinished = FALSE

(* waitForAllThreadsToFinishMating(), lines 581-585: a thread returning     *)
(* from pthread_cond_wait holds the mutex again and re-reads the flag       *)
LeaveBarrier(t) ==
    /\ Pc(t) = "finWait"
    /\ ~StillWaiting(allThreadsFinishedMating)
    /\ IF t = MainThread
         THEN mainPc' = AfterBarrier(t) /\ UNCHANGED wpc
         ELSE wpc' = [wpc EXCEPT ![t] = AfterBarrier(t)] /\ UNCHANGED mainPc
    /\ UNCHANGED <<callVars, histVars, streamVars, setupVars, chromVars, pairVars, cfgVars, i, spawnVars, interrupted, flagVars, mateVars,
                   mateRound, arrivedRound>>

(* ---- run(), lines 467-474: minimum fitness, updateCurrentGeneration, --i ---- *)
UpdateGeneration ==
    /\ mainPc = "update"
    /\ mainPc' = "genLoop"
    /\ i' = i - 1
    /\ UNCHANGED <<callVars, histVars, streamVars, setupVars, chromVars, pairVars, cfgVars, spawnVars, interrupted, flagVars, wpc, mateVars,
                   mateRound, arrivedRound>>

(* ---- run(), lines 479-491: signal the threads to end ---- *)
SignalEnd ==
    /\ mainPc = "genLoop"
    /\ ~(i > 0 /\ ~interrupted)
    /\ startMating' = TRUE
    /\ killThreads' = TRUE
    /\ mainPc' = "join"
    /\ i' = maxThreadsToSpawn - 1
    /\ UNCHANGED <<callVars, histVars, streamVars, setupVars, chromVars, pairVars, cfgVars, spawnVars, interrupted, allThreadsFinishedMating,
                   numThreadsFinishedMating, wpc, mateVars, mateRound, arrivedRound>>

(* ---- run(), lines 491-499: pthread_join(threads[i]) ---- *)
(* For a thread that was never created threads[i] was never set: the join   *)
(* reads an indeterminate pthread_t, so it may return an error code or not  *)
(* return at all.                                                           *)
JoinThread ==
    /\ mainPc = "join"
    /\ i >= 0
    /\ IF wpc[i] # "none"
         THEN /\ wpc[i] = "exited"
              /\ i' = i - 1
              /\ UNCHANGED mainPc
         ELSE \E returns \in BOOLEAN :
                IF returns THEN i' = i - 1 /\ UNCHANGED mainPc
                ELSE mainPc' = "joinLost" /\ UNCHANGED i
    /\ UNCHANGED <<callVars, histVars, streamVars, setupVars, chromVars, pairVars, cfgVars, spawnVars, interrupted, flagVars, wpc, mateVars,
                   mateRound, arrivedRound>>

(* ---- run(), lines 501-519: clean up, rethrow the interruption ---- *)
RunEnd ==
    /\ mainPc = "join"
    /\ i < 0
    /\ mainPc' = IF interrupted THEN "raised" ELSE "done"
    /\ UNCHANGED <<callVars, histVars, streamVars, setupVars, chromVars, pairVars, cfgVars, i, spawnVars, interrupted, flagVars, wpc, mateVars,
                   mateRound, arrivedRound>>

MainNext ==
    \/ SpawnThread
    \/ SpawnDone
    \/ StartGeneration
    \/ MateIteration(MainThread)
    \/ MateReturn(MainThread)
    \/ ArriveAtBarrier(MainThread)
    \/ LeaveBarrier(MainThread)
    \/ UpdateGeneration
    \/ SignalEnd
    \/ JoinThread
    \/ RunEnd

WorkerNext(w) ==
    \/ WorkerStart(w)
    \/ MateIteration(w)
    \/ MateReturn(w)
    \/ ArriveAtBarrier(w)
    \/ LeaveBarrier(w)

Next == MainNext \/ \E w \in Workers : WorkerNext(w)

Spec == Init /\ [][Next]_vars

(* Every thread that can take a step eventually takes one: the scheduler    *)
(* runs every runnable thread, and a mutex that is free is acquired.        *)
FairSpec == Spec /\ WF_vars(MainNext) /\ \A w \in Workers : WF_vars(WorkerNext(w))


(***************************************************************************)
(* mate(), lines 159-246: the fitness decisions of one pass of the outer    *)
(* loop. Fitness values are doubles; the model draws them from a finite set *)
(* of integers (tenths) and keeps badSolutionThreshold in percent, so every *)
(* comparison below is exact.                                               *)
(***************************************************************************)
FitnessValues == {-100, -80, -51, -49, 0, 49, 51, 80, 100}
ThresholdPercents == {0, 50, 100}

Abs(x) == IF x < 0 THEN 0 - x ELSE x

(* line 166 *)
ReferenceParentFitness(f1, f2) == IF f1 > f2 THEN f1 ELSE f2

(* mutant: the margin is taken as a product, without fabs *)
PairAbandoned_Product(fitness, minParent, thresholdPercent) ==
    100 * fitness < minParent * (100 - thresholdPercent)

(* line 237: fitness < minParentFitness - badSolutionThreshold * fabs(minParentFitness), *)
(* both sides multiplied by 100                                             *)
PairAbandoned(fitness, minParent, thresholdPercent) ==
    100 * fitness < 100 * minParent - thresholdPercent * Abs(minParent)

(* mutant: the improvement loop ignores the budget *)
RetryCond_NoBudget(fitness, minParent, tries, maxTries) == fitness < minParent

(* line 197: the condition of the improvement loop; ++matingTries (uint8_t) *)
(* is evaluated only when the first operand holds                           *)
RetryCond(fitness, minParent, tries, maxTries) ==
    fitness < minParent /\ (tries + 1) % 256 < maxTries

PairInit ==
    /\ badSolutionThreshold \in ThresholdPercents
    /\ maxMatingTries \in 0 .. MaxMatingTries
    /\ pairPc = "draw"
    /\ parent1Fitness = 0
    /\ parent2Fitness = 0
    /\ minParentFitness = 0
    /\ child1Fitness = 0
    /\ child2Fitness = 0
    /\ matingTries = 0
    /\ adoption = "none"
    /\ rematings = 0
    (* the threads of run() are not part of this specification *)
    /\ ThreadsIdle
    /\ ChromIdle
    /\ SetupIdle
    /\ CallIdle

threadVars == <<cfgVars, mainPc, i, spawnVars, interrupted, flagVars, wpc,
                mateVars, mateRound, arrivedRound, histVars, streamVars>>

(* lines 159-166: two parents are drawn and mated into the two slots, whose *)
(* fitness is void until line 183; the reference parent fitness is taken    *)
DrawParents ==
    /\ pairPc \in {"draw", "abandoned", "kept"}
    /\ \E f1 \in FitnessValues, f2 \in FitnessValues :
         /\ parent1Fitness' = f1
         /\ parent2Fitness' = f2
         /\ minParentFitness' = ReferenceParentFitness(f1, f2)
    /\ child1Fitness' = 0
    /\ child2Fitness' = 0
    /\ matingTries' = 0
    /\ adoption' = "none"
    /\ rematings' = 0
    /\ pairPc' = "mated"
    /\ UNCHANGED <<callVars, setupVars, chromVars, threadVars, badSolutionThreshold, maxMatingTries>>

(* lines 183-196: both children are evaluated and ordered *)
EvaluateChildren ==
    /\ pairPc = "mated"
    /\ \E e1 \in FitnessValues, e2 \in FitnessValues :
         /\ child1Fitness' = IF e1 < e2 THEN e2 ELSE e1
         /\ child2Fitness' = IF e1 < e2 THEN e1 ELSE e2
    /\ matingTries' = 0
    /\ pairPc' = "retry"
    /\ UNCHANGED <<callVars, setupVars, chromVars, threadVars, badSolutionThreshold, maxMatingTries,
                   parent1Fitness, parent2Fitness, minParentFitness,
                   adoption, rematings>>

(* lines 197-198: the loop condition holds, the parents are mated again *)
RetryMating ==
    /\ pairPc = "retry"
    /\ RetryCond(child1Fitness, minParentFitness, matingTries, maxMatingTries)
    /\ matingTries' = (matingTries + 1) % 256
    /\ rematings' = rematings + 1
    /\ adoption' = "none"
    /\ pairPc' = "proposal1"
    /\ UNCHANGED <<callVars, setupVars, chromVars, threadVars, badSolutionThreshold, maxMatingTries,
                   parent1Fitness, parent2Fitness, minParentFitness,
                   child1Fitness, child2Fitness>>

(* mutant: a proposal of equal fitness is taken as an improvement *)
Improves_OrEqual(proposal, current) == proposal >= current

(* lines 205, 206, 219, 220: the comparisons are strict *)
Improves(proposal, current) == proposal > current

(* lines 204-215 and 218-229: one proposal child is checked and adopted; a  *)
(* proposal without variables is not evaluated                              *)
AdoptProposal(variableCount, proposal) ==
    IF variableCount > 0 /\ Improves(proposal, child2Fitness)
      THEN IF Improves(proposal, child1Fitness)
             THEN /\ child1Fitness' = proposal /\ child2Fitness' = child1Fitness
                  /\ adoption' = "child1"
             ELSE /\ child2Fitness' = proposal /\ UNCHANGED child1Fitness
                  /\ adoption' = "child2"
      ELSE /\ UNCHANGED <<child1Fitness, child2Fitness>>
           /\ adoption' = "rejected"

CheckProposal1 ==
    /\ pairPc = "proposal1"
    /\ \E variableCount \in {0, 1}, proposal \in FitnessValues :
         AdoptProposal(variableCount, proposal)
    /\ pairPc' = "proposal2"
    /\ UNCHANGED <<callVars, setupVars, chromVars, threadVars, badSolutionThreshold, maxMatingTries,
                   parent1Fitness, parent2Fitness, minParentFitness, matingTries,
                   rematings>>

CheckProposal2 ==
    /\ pairPc = "proposal2"
    /\ \E variableCount \in {0, 1}, proposal \in FitnessValues :
         AdoptProposal(variableCount, proposal)
    /\ pairPc' = "retry"
    /\ UNCHANGED <<callVars, setupVars, chromVars, threadVars, badSolutionThreshold, maxMatingTries,
                   parent1Fitness, parent2Fitness, minParentFitness, matingTries,
                   rematings>>

(* line 197: the loop condition fails *)
RetryEnd ==
    /\ pairPc = "retry"
    /\ ~RetryCond(child1Fitness, minParentFitness, matingTries, maxMatingTries)
    /\ matingTries' = IF child1Fitness < minParentFitness
                        THEN (matingTries + 1) % 256 ELSE matingTries
    /\ adoption' = "none"
    /\ pairPc' = "decide"
    /\ UNCHANGED <<callVars, setupVars, chromVars, threadVars, badSolutionThreshold, maxMatingTries,
                   parent1Fitness, parent2Fitness, minParentFitness,
                   child1Fitness, child2Fitness, rematings>>

(* lines 237-243: the pair is abandoned, continue *)
AbandonPair ==
    /\ pairPc = "decide"
    /\ PairAbandoned(child1Fitness, minParentFitness, badSolutionThreshold)
    /\ pairPc' = "abandoned"
    /\ UNCHANGED <<callVars, setupVars, chromVars, threadVars, badSolutionThreshold, maxMatingTries,
                   parent1Fitness, parent2Fitness, minParentFitness,
                   child1Fitness, child2Fitness, matingTries, adoption, rematings>>

(* lines 237 and 245: the pair is kept and goes on to mutation *)
KeepPair ==
    /\ pairPc = "decide"
    /\ ~PairAbandoned(child1Fitness, minParentFitness, badSolutionThreshold)
    /\ pairPc' = "kept"
    /\ UNCHANGED <<callVars, setupVars, chromVars, threadVars, badSolutionThreshold, maxMatingTries,
                   parent1Fitness, parent2Fitness, minParentFitness,
                   child1Fitness, child2Fitness, matingTries, adoption, rematings>>

PairNext ==
    \/ DrawParents
    \/ EvaluateChildren
    \/ RetryMating
    \/ CheckProposal1
    \/ CheckProposal2
    \/ RetryEnd
    \/ AbandonPair
    \/ KeepPair

PairSpec == PairInit /\ [][PairNext]_vars


(***************************************************************************)
(* The Chromosome operations (Chromosome.h lines 31-53 declares them, their *)
(* bodies are in Chromosome.cpp): a chromosome is the set of its selected   *)
(* variable positions; the operations are as the specification section 4.2  *)
(* describes them.                                                          *)
(***************************************************************************)
Positions == 1 .. MaxChromosomeSize
Chromosomes == SUBSET Positions

getVariableCount(c) == Cardinality(c)

WithinBounds(c) ==
    minVariables <= getVariableCount(c) /\ getVariableCount(c) <= maxVariables

(* random initialization and randomlyReset: any chromosome within the bounds *)
RandomChromosomes == {c \in Chromosomes : WithinBounds(c)}

(* mutate: every bit of flips is inverted *)
FlipBits(c, flips) == (c \ flips) \cup (flips \ c)

(* mutant: mutate leaves the flipped chromosome as it is *)
RepairResults_NoRepair(c) == {c}

(* mutate: a chromosome outside the bounds is repaired by adding random     *)
(* bits up to minVariables or removing random bits down to maxVariables     *)
RepairResults(c) ==
    IF getVariableCount(c) < minVariables
      THEN {r \in Chromosomes : c \subseteq r /\ getVariableCount(r) = minVariables}
    ELSE IF getVariableCount(c) > maxVariables
      THEN {r \in Chromosomes : r \subseteq c /\ getVariableCount(r) = maxVariables}
    ELSE {c}

(* mateWith: at the positions of fromSelf the first child takes the bit of  *)
(* this chromosome and the second child the bit of the other one, at all    *)
(* other positions the other way round                                      *)
CrossoverChild(self, other, fromSelf) == (self \cap fromSelf) \cup (other \ fromSelf)

ChromInit ==
    /\ minVariables \in 1 .. MaxChromosomeSize
    /\ maxVariables \in minVariables .. MaxChromosomeSize
    /\ parentA \in RandomChromosomes
    /\ parentB \in RandomChromosomes
    /\ childA = {}
    /\ childB = {}
    /\ lastOp = "init"
    /\ produced = {parentA, parentB}
    /\ ThreadsIdle
    /\ PairIdle
    /\ SetupIdle
    /\ CallIdle

(* mutate: the chromosomes mutate can leave in place of c *)
MutateResults(c) ==
    UNION {RepairResults(FlipBits(c, flips)) : flips \in SUBSET Positions}

(* Chromosome(ctrl, varPosPop, rng): the first parent is replaced by a new  *)
(* random chromosome                                                        *)
RandomInit ==
    /\ \E c \in RandomChromosomes :
         /\ parentA' = c
         /\ produced' = {c}
    /\ lastOp' = "init"
    /\ UNCHANGED <<callVars, setupVars, threadVars, pairVars, minVariables, maxVariables, parentB,
                   childA, childB>>

(* parentA.mateWith(parentB, rng, childA, childB) *)
MateWith ==
    /\ \E fromSelf \in SUBSET Positions :
         /\ childA' = CrossoverChild(parentA, parentB, fromSelf)
         /\ childB' = CrossoverChild(parentB, parentA, fromSelf)
    /\ produced' = {childA', childB'}
    /\ lastOp' = "mateWith"
    /\ UNCHANGED <<callVars, setupVars, threadVars, pairVars, minVariables, maxVariables, parentA, parentB>>

(* childA.mutate(rng) *)
Mutate ==
    /\ lastOp # "init"
    /\ \E r \in MutateResults(childA) :
         /\ childA' = r
         /\ produced' = {r}
    /\ lastOp' = "mutate"
    /\ UNCHANGED <<callVars, setupVars, threadVars, pairVars, minVariables, maxVariables, parentA, parentB,
                   childB>>

(* childA.randomlyReset(rng, shuffledSet) *)
RandomlyReset ==
    /\ lastOp # "init"
    /\ \E c \in RandomChromosomes :
         /\ childA' = c
         /\ produced' = {c}
    /\ lastOp' = "randomlyReset"
    /\ UNCHANGED <<callVars, setupVars, threadVars, pairVars, minVariables, maxVariables, parentA, parentB,
                   childB>>

ChromNext ==
    \/ RandomInit
    \/ MateWith
    \/ Mutate
    \/ RandomlyReset

ChromSpec == ChromInit /\ [][ChromNext]_vars

(***************************************************************************)
(* The constructor (lines 99-128) and the seeding loop of run() (lines      *)
(* 309-350).  A chromosome is the set of its selected variable positions,   *)
(* as above; two chromosomes are equal when they have the same bits.        *)
(***************************************************************************)

(* mutant: only numThreads = 0 is refused *)
CtorRejects_OnlyZero(n) == n < 1

(* line 101 *)
CtorRejects(n) == n <= 1

(* mutant: the candidate is never found in nextGeneration *)
InGeneration_Never(c, gen) == FALSE

(* line 335: std::find_if over nextGeneration with CompChromsomePtr *)
InGeneration(c, gen) == \E k \in 1 .. Len(gen) : gen[k] = c

SetupInit ==
    /\ numThreads \in 0 .. MaxThreads
    /\ populationSize \in 2 .. MaxSeedPopulation
    /\ numGenerations = 1
    /\ maxDuplicateEliminationTries = 0
    /\ RunNotCalled
    /\ PairIdle
    /\ minVariables = 1
    /\ maxVariables = 2
    /\ parentA = {}
    /\ parentB = {}
    /\ childA = {}
    /\ childB = {}
    /\ lastOp = "none"
    /\ produced = {}
    /\ setupPc = "construct"
    /\ initialized = {}
    /\ nextGeneration = <<>>
    /\ evaluated = <<>>
    /\ elite = <<>>
    /\ rejected = 0
    /\ CallIdle

(* lines 99-103: the base class is constructed, then numThreads is checked *)
CheckNumThreads ==
    /\ setupPc = "construct"
    /\ setupPc' = IF CtorRejects(numThreads) THEN "logicError" ELSE "syncMutex"
    /\ UNCHANGED <<callVars, threadVars, pairVars, chromVars, initialized, nextGeneration,
                   evaluated, elite, rejected>>

(* the primitive initialized after p, lines 107-121 *)
AfterPrimitive(p) ==
    IF p = "syncMutex" THEN "startMatingCond"
    ELSE IF p = "startMatingCond" THEN "allThreadsFinishedMatingCond"
    ELSE "setFlags"

(* lines 107-121: pthread_mutex_init / pthread_cond_init, each of which can *)
(* fail with a ThreadingError                                               *)
InitPrimitive ==
    /\ setupPc \in {"syncMutex", "startMatingCond", "allThreadsFinishedMatingCond"}
    /\ \E pthreadRC \in {0, 1} :
         IF pthreadRC # 0
           THEN setupPc' = "threadingError" /\ UNCHANGED initialized
           ELSE /\ initialized' = initialized \cup {setupPc}
                /\ setupPc' = AfterPrimitive(setupPc)
    /\ UNCHANGED <<callVars, threadVars, pairVars, chromVars, nextGeneration, evaluated,
                   elite, rejected>>

(* lines 122-128: the flags and counters are cleared (they already have     *)
(* these values in the model), the constructor returns                      *)
ConstructorEnd ==
    /\ setupPc = "setFlags"
    /\ setupPc' = "constructed"
    /\ UNCHANGED <<callVars, threadVars, pairVars, chromVars, initialized, nextGeneration,
                   evaluated, elite, rejected>>

(* lines 309-326: run() is called on the constructed object *)
RunBegin ==
    /\ setupPc = "constructed"
    /\ setupPc' = "seeding"
    /\ UNCHANGED <<callVars, threadVars, pairVars, chromVars, initialized, nextGeneration,
                   evaluated, elite, rejected>>

(* lines 331-349: one iteration of the seeding loop *)
SeedCandidate ==
    /\ setupPc = "seeding"
    /\ Len(nextGeneration) < populationSize
    /\ \E tmpChromosome \in RandomChromosomes, interrupt \in BOOLEAN :
         /\ IF ~InGeneration(tmpChromosome, nextGeneration)
              THEN /\ evaluated' = Append(evaluated, tmpChromosome)
                   /\ elite' = Append(elite, tmpChromosome)
                   /\ nextGeneration' = Append(nextGeneration, tmpChromosome)
                   /\ UNCHANGED rejected
              ELSE /\ rejected < MaxRejected
                   /\ rejected' = rejected + 1
                   /\ UNCHANGED <<evaluated, elite, nextGeneration>>
         /\ setupPc' = IF interrupt THEN "interrupted" ELSE "seeding"
    /\ UNCHANGED <<callVars, threadVars, pairVars, chromVars, initialized>>

(* line 331: the loop condition fails, run() goes on to line 352 *)
SeedDone ==
    /\ setupPc = "seeding"
    /\ ~(Len(nextGeneration) < populationSize)
    /\ setupPc' = "seeded"
    /\ UNCHANGED <<callVars, threadVars, pairVars, chromVars, initialized, nextGeneration,
                   evaluated, elite, rejected>>

SetupNext ==
    \/ CheckNumThreads
    \/ InitPrimitive
    \/ ConstructorEnd
    \/ RunBegin
    \/ SeedCandidate
    \/ SeedDone

SetupSpec == SetupInit /\ [][SetupNext]_vars

(***************************************************************************)
(* One generation with its content: mate() (lines 136-304) as a function of *)
(* the RNG of the calling thread, the current generation and the slots of   *)
(* the thread's range.  The bodies of the Chromosome and Population         *)
(* operations it calls are not in MultiThreadedPopulation.cpp; each is a    *)
(* function of its arguments and of the numbers it draws from the rng it is *)
(* passed.  maxMatingTries is 0 here, so the improvement loop of line 197   *)
(* never runs its body.                                                     *)
(***************************************************************************)

(* a chromosome as a number, bit p-1 for position p *)
RECURSIVE ChromIndex(_)
ChromIndex(c) ==
    IF c = {} THEN 0
    ELSE LET p == CHOOSE x \in c : TRUE
         IN 2 ^ (p - 1) + ChromIndex(c \ {p})

(* the draw-th element of a set of chromosomes, in the order of ChromIndex *)
PickFrom(S, draw) ==
    CHOOSE c \in S :
        Cardinality({d \in S : ChromIndex(d) < ChromIndex(c)}) = draw % Cardinality(S)

(* Evaluator::evaluate: a fixed positive score for every chromosome with at *)
(* least one variable                                                       *)
RECURSIVE Fitness(_)
Fitness(c) ==
    IF c = {} THEN 0
    ELSE LET p == CHOOSE x \in c : TRUE
         IN p + Fitness(c \ {p})

(* the population as run() leaves it at line 358: populationSize distinct   *)
(* chromosomes within the bounds                                            *)
SeededGeneration(size) == [k \in 1 .. size |-> PickFrom(RandomChromosomes, k - 1)]

RECURSIVE SumFitness(_, _)
SumFitness(gen, k) == IF k = 0 THEN 0 ELSE Fitness(gen[k]) + SumFitness(gen, k - 1)

RECURSIVE SelectionWalk(_, _, _, _)
SelectionWalk(gen, target, k, acc) ==
    IF k = Len(gen) \/ acc + Fitness(gen[k]) > target THEN k
    ELSE SelectionWalk(gen, target, k + 1, acc + Fitness(gen[k]))

(* line 159: drawChromosomeFromCurrentGeneration(rng(0.0, sumCurrentGenFitness)), *)
(* fitness-proportional: the index of the chromosome drawn                  *)
SelectIndex(draw, gen) ==
    SelectionWalk(gen, draw % SumFitness(gen, Len(gen)), 1, 0)

(* lines 160-162: draw until the second parent is not the first one *)
RECURSIVE DrawDistinct(_, _, _)
DrawDistinct(state, first, fuel) ==
    LET next == RngNext(state)
        index == SelectIndex(next, currentGeneration)
    IN IF index # first \/ fuel = 0 THEN [rng |-> next, index |-> index]
       ELSE DrawDistinct(next, first, fuel - 1)

(* mateWith: the positions taken from this chromosome, from one number of   *)
(* the rng                                                                  *)
MaskOf(draw) == {p \in Positions : (draw \div (2 ^ (p - 1))) % 2 = 1}

(* mutate(rng): one number decides whether and which bit is flipped and how *)
(* a chromosome outside the bounds is repaired                              *)
MutateWith(c, draw) ==
    LET flips == IF draw % 3 = 0
                   THEN {1 + ((draw \div 3) % MaxChromosomeSize)} ELSE {}
    IN PickFrom(RepairResults(FlipBits(c, flips)), draw)

(* randomlyReset(rng, shuffledSet) *)
ResetWith(draw) == PickFrom(RandomChromosomes, draw)

(* mutant: the children are compared with the finalized slots of every      *)
(* thread                                                                   *)
ComparedSlots_All(ownFinalized, allFinalized) == allFinalized

(* line 252: checkDuplicated(rangeBeginIt, rangeEndIt, child1It, child2It)  *)
(* looks at the slots of the range outside [child1It, child2It]             *)
ComparedSlots(ownFinalized, allFinalized) == ownFinalized

(* lines 159-164: the two parents, as indices into currentGeneration, and   *)
(* the state of the rng after mateWith drew its number                      *)
DrawPair(state) ==
    LET first == RngNext(state)
        index1 == SelectIndex(first, currentGeneration)
        second == DrawDistinct(first, index1, RngModulus)
    IN [rng |-> RngNext(second.rng), p1 |-> index1, p2 |-> second.index]

(* lines 175-181: an empty child becomes a copy of the other one; both      *)
(* cannot be empty, together they hold the bits of the two parents          *)
FillEmpty(mated1, mated2) ==
    IF getVariableCount(mated1) = 0 THEN <<mated2, mated2>>
    ELSE IF getVariableCount(mated2) = 0 THEN <<mated1, mated1>>
    ELSE <<mated1, mated2>>

(* lines 183-188: the fitter child first *)
OrderByFitness(kids) ==
    IF Fitness(kids[1]) < Fitness(kids[2]) THEN <<kids[2], kids[1]>> ELSE kids

(* lines 164-188: the children of a pair, as written to **child1It and      *)
(* **child2It                                                               *)
MatedChildren(pair) ==
    OrderByFitness(FillEmpty(
        CrossoverChild(currentGeneration[pair.p1], currentGeneration[pair.p2],
                       MaskOf(pair.rng)),
        CrossoverChild(currentGeneration[pair.p2], currentGeneration[pair.p1],
                       MaskOf(pair.rng))))

(* lines 166 and 237 *)
PairIsAbandoned(pair, kids) ==
    PairAbandoned(Fitness(kids[1]),
                  ReferenceParentFitness(Fitness(currentGeneration[pair.p1]),
                                         Fitness(currentGeneration[pair.p2])),
                  badSolutionThreshold)

(* lines 254-288 for one child: reset when the tries ran out, and the rng   *)
(* after it                                                                 *)
SettleChild(state, mutated, dup, tries) ==
    IF ChildReset(dup, tries, maxDuplicateEliminationTries)
      THEN [rng |-> RngNext(state), chrom |-> ResetWith(RngNext(state)), reset |-> TRUE]
      ELSE [rng |-> state, chrom |-> mutated, reset |-> FALSE]

(* lines 254-288 on the locals L, for children that are settled *)
AdvanceChildren(L, dup1, dup2, settled1, settled2) ==
    [rng |-> settled2.rng,
     gen |-> [L.gen EXCEPT ![L.c1 + 1] = settled1.chrom,
                           ![L.c2 + 1] = settled2.chrom],
     c1 |-> IF ChildAdvances(dup1, L.t1, maxDuplicateEliminationTries)
              THEN L.c1 + 1 ELSE L.c1,
     c2 |-> IF ChildAdvances(dup2, L.t2, maxDuplicateEliminationTries)
              THEN L.c2 - 1 ELSE L.c2,
     t1 |-> IF ChildAdvances(dup1, L.t1, maxDuplicateEliminationTries)
              THEN 0 ELSE TriesAfterCheck(dup1, L.t1),
     t2 |-> IF ChildAdvances(dup2, L.t2, maxDuplicateEliminationTries)
              THEN 0 ELSE TriesAfterCheck(dup2, L.t2),
     fin |-> L.fin
             \cup (IF ChildAdvances(dup1, L.t1, maxDuplicateEliminationTries)
                     THEN {L.c1} ELSE {})
             \cup (IF ChildAdvances(dup2, L.t2, maxDuplicateEliminationTries)
                     THEN {L.c2} ELSE {}),
     forced |-> L.forced \cup (IF settled1.reset THEN {L.c1} ELSE {})
                         \cup (IF settled2.reset THEN {L.c2} ELSE {})]

(* lines 252-288: the duplicate check of the mutated children against the   *)
(* chromosomes compared, then the two branches                              *)
CheckAndAdvance(L, state, mutated1, mutated2, compared) ==
    AdvanceChildren(L, mutated1 \in compared,
        mutated2 \in compared \/ mutated2 = mutated1,
        SettleChild(state, mutated1, mutated1 \in compared, L.t1),
        SettleChild(SettleChild(state, mutated1, mutated1 \in compared, L.t1).rng,
                    mutated2, mutated2 \in compared \/ mutated2 = mutated1, L.t2))

(* lines 245-288: mutation of the two children, one number each *)
MutateAndCheck(L, allFinalized, state, kids) ==
    CheckAndAdvance(L, RngNext(RngNext(state)),
        MutateWith(kids[1], RngNext(state)),
        MutateWith(kids[2], RngNext(RngNext(state))),
        {L.gen[k + 1] : k \in ComparedSlots(L.fin, allFinalized)})

(* lines 237-288, for a pair and its children *)
AfterMating(L, allFinalized, pair, kids) ==
    IF SkipsRestOfBody(PairIsAbandoned(pair, kids))
      THEN [L EXCEPT !.rng = pair.rng,
                     !.gen = [@ EXCEPT ![L.c1 + 1] = kids[1], ![L.c2 + 1] = kids[2]]]
      ELSE MutateAndCheck(L, allFinalized, pair.rng, kids)

(* lines 159-288: one iteration of the outer loop on the locals L of a      *)
(* call of mate(); slot k of nextGeneration is L.gen[k + 1]                 *)
MateStep(L, allFinalized) ==
    AfterMating(L, allFinalized, DrawPair(L.rng), MatedChildren(DrawPair(L.rng)))

(* lines 143-158 and 302-304: a whole call of mate(), run by itself *)
RECURSIVE MateAlone(_, _)
MateAlone(L, fuel) ==
    IF ~MateLoopCond(L.c1, L.c2) \/ fuel = 0 THEN L
    ELSE MateAlone(MateStep(L, L.fin), fuel - 1)

(* the locals of thread t when it enters mate() in the first generation:    *)
(* its RNG as built from its seed (for the invoking thread: the RNG of      *)
(* run() after the seeds were drawn), nextGeneration as seeded              *)
LocalsAtEntry(t) ==
    [rng |-> IF t = MainThread THEN RngAfter(seed, maxThreadsToSpawn)
             ELSE threadArgs[t].seed,
     gen |-> SeededGeneration(populationSize),
     c1 |-> OffsetOf(t), c2 |-> OffsetOf(t) + NumChildrenOf(t) - 1,
     t1 |-> 0, t2 |-> 0, fin |-> {}, forced |-> {}]

StreamInit ==
    /\ numThreads \in 2 .. MaxThreads
    /\ populationSize \in 2 .. MaxPopulation
    /\ populationSize >= numThreads
    /\ numGenerations = 1
    /\ maxDuplicateEliminationTries \in 0 .. MaxDupTries
    /\ seed \in 1 .. MaxSeed
    /\ RunStart
    /\ badSolutionThreshold \in {0, 50}
    /\ maxMatingTries = 0
    /\ pairPc = "idle"
    /\ parent1Fitness = 0
    /\ parent2Fitness = 0
    /\ minParentFitness = 0
    /\ child1Fitness = 0
    /\ child2Fitness = 0
    /\ matingTries = 0
    /\ adoption = "none"
    /\ rematings = 0
    /\ minVariables = 1
    /\ maxVariables = 2
    /\ parentA = {}
    /\ parentB = {}
    /\ childA = {}
    /\ childB = {}
    /\ lastOp = "none"
    /\ produced = {}
    /\ setupPc = "idle"
    /\ initialized = {"syncMutex", "startMatingCond", "allThreadsFinishedMatingCond"}
    /\ evaluated = <<>>
    /\ elite = <<>>
    /\ rejected = 0
    /\ nextGeneration = SeededGeneration(populationSize)
    /\ currentGeneration = SeededGeneration(populationSize)
    /\ CallIdle

(* one iteration of the outer loop of thread t on the shared state *)
StreamMateIteration(t) ==
    /\ Pc(t) = "mate"
    /\ MateLoopCond(child1It[t], child2It[t])
    /\ LET after == MateStep([rng |-> rngState[RngOf(t)], gen |-> nextGeneration,
                              c1 |-> child1It[t], c2 |-> child2It[t],
                              t1 |-> child1Tries[t], t2 |-> child2Tries[t],
                              fin |-> finalized[t], forced |-> forced[t]],
                             UNION {finalized[u] : u \in Participants})
       IN /\ rngState' = [rngState EXCEPT ![RngOf(t)] = after.rng]
          /\ nextGeneration' = after.gen
          /\ child1It' = [child1It EXCEPT ![t] = after.c1]
          /\ child2It' = [child2It EXCEPT ![t] = after.c2]
          /\ child1Tries' = [child1Tries EXCEPT ![t] = after.t1]
          /\ child2Tries' = [child2Tries EXCEPT ![t] = after.t2]
          /\ finalized' = [finalized EXCEPT ![t] = after.fin]
          /\ forced' = [forced EXCEPT ![t] = after.forced]
          /\ written' = [written EXCEPT ![t] = @ \cup {child1It[t], child2It[t]}]
    /\ UNCHANGED <<callVars, histVars, seed, currentGeneration, setupPc, initialized, evaluated,
                   elite, rejected, chromVars, pairVars, cfgVars, mainPc, i,
                   spawnVars, interrupted, flagVars, wpc, mateRound, arrivedRound>>

StreamNext ==
    \/ SpawnThread
    \/ SpawnDone
    \/ StartGeneration
    \/ \E w \in Workers : WorkerStart(w)
    \/ \E t \in AllThreads : StreamMateIteration(t)
    \/ \E t \in AllThreads : MateReturn(t)

StreamSpec == StreamInit /\ [][StreamNext]_vars

(***************************************************************************)
(* One call of mate() (lines 136-304) on its range, statement by statement, *)
(* with the bits and the stored fitness of every chromosome of the range.   *)
(* Every number drawn from the rng is a free choice; the call is not        *)
(* interrupted.  Slot k of the range is range[k], child1It and child2It are *)
(* indices into it.                                                         *)
(***************************************************************************)
EvaluatorKinds == {"sum", "negated"}

(* Evaluator::evaluate: the value of the evaluator for a bit pattern *)
Evaluate(kind, bits) == IF kind = "negated" THEN 0 - Fitness(bits) ELSE Fitness(bits)

(* a chromosome whose stored fitness is the value of the evaluator *)
Evaluated(kind, bits) == [bits |-> bits, fitness |-> Evaluate(kind, bits)]

(* the slots of the range that are finalized: child1It has moved past the   *)
(* ones in front, child2It past the ones at the back                        *)
FinalizedSlots == (1 .. (call.child1It - 1)) \cup ((call.child2It + 1) .. call.numChildren)

(* the smallest population a range of n chromosomes is part of *)
PopulationFor(n) == IF n < 2 THEN 2 ELSE n

CallInit ==
    /\ ThreadsUnstarted
    /\ numThreads = 2
    /\ numGenerations = 2
    /\ maxDuplicateEliminationTries \in {0, MaxDupTries}
    /\ badSolutionThreshold \in {0, 50}
    /\ maxMatingTries \in {0, MaxMatingTries}
    /\ pairPc = "idle"
    /\ parent1Fitness = 0
    /\ parent2Fitness = 0
    /\ minParentFitness = 0
    /\ child1Fitness = 0
    /\ child2Fitness = 0
    /\ matingTries = 0
    /\ adoption = "none"
    /\ rematings = 0
    /\ minVariables = 1
    /\ maxVariables = 1
    /\ parentA = {}
    /\ parentB = {}
    /\ childA = {}
    /\ childB = {}
    /\ lastOp = "none"
    /\ produced = {}
    /\ SetupIdle
    /\ \E kind \in EvaluatorKinds, n \in 1 .. MaxChildren :
         (* lines 143-156 *)
         /\ call = [NoCall EXCEPT !.evaluator = kind, !.numChildren = n,
                                  !.generation = 1,
                                  !.child1It = 1, !.child2It = n]
         (* the first generation: nextGeneration holds the seeded chromosomes *)
         (* (lines 331-358); the range is the whole population when no       *)
         (* worker could be created                                          *)
         /\ populationSize = PopulationFor(n)
         /\ currentGeneration = SeededGeneration(PopulationFor(n))
         /\ range = [k \in 1 .. n |->
                        Evaluated(kind, SeededGeneration(PopulationFor(n))[k])]
         (* lines 331-358: every seeded chromosome was evaluated *)
         /\ currentFitness = [k \in 1 .. PopulationFor(n) |->
                        Evaluate(kind, SeededGeneration(PopulationFor(n))[k])]
    /\ callPc = "loop"
    /\ evalArgs = {}
    /\ lastStep = NoStep

(* line 158: the loop condition fails; lines 302-304 *)
CallReturn ==
    /\ callPc = "loop"
    /\ ~MateLoopCond(call.child1It, call.child2It)
    /\ callPc' = "returned"
    /\ evalArgs' = {}
    /\ lastStep' = [lastStep EXCEPT !.op = "returned", !.skipped = 0]
    /\ UNCHANGED <<call, range, currentFitness, setupVars, threadVars,
                   pairVars, chromVars>>

(* lines 158-159: the loop condition holds, the first parent is drawn; the  *)
(* weights of the selection are positive, so every chromosome can be drawn  *)
DrawFirstParent ==
    /\ callPc = "loop"
    /\ MateLoopCond(call.child1It, call.child2It)
    /\ \E index \in 1 .. Len(currentGeneration) :
         call' = [call EXCEPT !.tmpChromosome1 = index]
    /\ callPc' = "draw2"
    /\ evalArgs' = {}
    /\ lastStep' = [op |-> "drawn", skipped |-> 0, filled |-> FALSE]
    /\ UNCHANGED <<range, currentFitness, setupVars, threadVars,
                   pairVars, chromVars>>

(* lines 160-162: one pass of the do-while loop with the chromosome drawn *)
DrawSecondParentAt(index) ==
    /\ callPc = "draw2"
    /\ index \in 1 .. Len(currentGeneration)
    /\ call' = [call EXCEPT !.tmpChromosome2 = index]
    /\ callPc' = IF call.tmpChromosome1 = index THEN "draw2" ELSE "mate"
    /\ evalArgs' = {}
    /\ lastStep' = [lastStep EXCEPT !.op = "drawn", !.skipped = 0]
    /\ UNCHANGED <<range, currentFitness, setupVars, threadVars,
                   pairVars, chromVars>>

DrawSecondParent ==
    \E index \in 1 .. Len(currentGeneration) : DrawSecondParentAt(index)

(* the fitness field of a chromosome whose bits were written by mateWith;   *)
(* it is not read before evaluate() has written it (lines 164-184, 198-205) *)
VoidFitness == 0

(* tmpChromosome1->mateWith(...) writes the bits of the two children, at   *)
(* the positions fromSelf those of the first parent                         *)
MatedInto(kids, fromSelf) ==
    <<[bits |-> CrossoverChild(currentGeneration[call.tmpChromosome1],
                               currentGeneration[call.tmpChromosome2], fromSelf),
       fitness |-> VoidFitness],
      [bits |-> CrossoverChild(currentGeneration[call.tmpChromosome2],
                               currentGeneration[call.tmpChromosome1], fromSelf),
       fitness |-> VoidFitness]>>

(* the chromosomes at child1It and child2It *)
Children == <<range[call.child1It], range[call.child2It]>>

(* the range after the chromosomes at child1It and child2It were replaced *)
WithChildren(kids) ==
    [range EXCEPT ![call.child1It] = kids[1], ![call.child2It] = kids[2]]

(* lines 164-166: mateWith has written kids into **child1It and **child2It, *)
(* the reference fitness is taken from the stored fitness of the parents    *)
MateInto(kids) ==
    /\ callPc = "mate"
    /\ range' = WithChildren(kids)
    /\ call' = [call EXCEPT !.minParentFitness =
           ReferenceParentFitness(currentFitness[call.tmpChromosome1],
                                  currentFitness[call.tmpChromosome2])]
    /\ callPc' = "mated"
    /\ evalArgs' = {}
    /\ lastStep' = [lastStep EXCEPT !.op = "mated", !.skipped = 0]
    /\ UNCHANGED <<currentFitness, setupVars, threadVars,
                   pairVars, chromVars>>

(* what one call of mateWith can write into the two children *)
MateOutcomes == {MatedInto(Children, fromSelf) : fromSelf \in SUBSET Positions}

MateParentsWith(fromSelf) == MateInto(MatedInto(Children, fromSelf))

MateParents ==
    /\ callPc = "mate"
    /\ \E kids \in MateOutcomes : MateInto(kids)

(* line 171: both children have no variables *)
BothEmpty(kids) ==
    getVariableCount(kids[1].bits) = 0 /\ getVariableCount(kids[2].bits) = 0

(* lines 175-181: a child without variables is replaced by a copy of the    *)
(* other one                                                                *)
CopiedOver(kids) ==
    IF getVariableCount(kids[1].bits) = 0 THEN <<kids[2], kids[2]>>
    ELSE IF getVariableCount(kids[2].bits) = 0 THEN <<kids[1], kids[1]>>
    ELSE kids

(* lines 171-181: while both children are empty the same parents are mated  *)
(* again, then an empty child is replaced                                   *)
RemateOrFill ==
    /\ callPc = "mated"
    /\ IF BothEmpty(Children)
         THEN /\ \E kids \in MateOutcomes : range' = WithChildren(kids)
              /\ callPc' = "mated"
              /\ lastStep' = [lastStep EXCEPT !.op = "remated", !.skipped = 0]
         ELSE /\ range' = WithChildren(CopiedOver(Children))
              /\ callPc' = "filled"
              /\ lastStep' = [op |-> "filled", skipped |-> 0,
                              filled |-> lastStep.filled \/ CopiedOver(Children) # Children]
    /\ evalArgs' = {}
    /\ UNCHANGED <<call, currentFitness, setupVars, threadVars,
                   pairVars, chromVars>>

(* lines 186-188: the fitter child first *)
FitterFirst(kids) ==
    IF kids[1].fitness < kids[2].fitness THEN <<kids[2], kids[1]>> ELSE kids

(* lines 183-196: both children are evaluated and ordered, matingTries = 0 *)
EvaluatePair ==
    /\ callPc = "filled"
    /\ range' = WithChildren(FitterFirst(
           <<Evaluated(call.evaluator, Children[1].bits),
             Evaluated(call.evaluator, Children[2].bits)>>))
    /\ evalArgs' = {Children[1].bits, Children[2].bits}
    /\ call' = [call EXCEPT !.matingTries = 0]
    /\ callPc' = "improve"
    /\ lastStep' = [lastStep EXCEPT !.op = "evaluated", !.skipped = 0]
    /\ UNCHANGED <<currentFitness, setupVars, threadVars,
                   pairVars, chromVars>>

(* mutant: a proposal child is evaluated whatever its variable count *)
EvaluatesProposal_Always(proposal) == TRUE

(* lines 204 and 218: if(proposalChild->getVariableCount() > 0) *)
EvaluatesProposal(proposal) == getVariableCount(proposal) > 0

(* lines 204-215 and 218-229: one proposal child is evaluated and adopted   *)
(* as child1 (the former child1 becomes child2) or as child2, or dropped    *)
ProposalChecked(kids, kind, proposal) ==
    IF EvaluatesProposal(proposal) /\ Improves(Evaluate(kind, proposal), kids[2].fitness)
      THEN IF Improves(Evaluate(kind, proposal), kids[1].fitness)
             THEN <<Evaluated(kind, proposal), kids[1]>>
             ELSE <<kids[1], Evaluated(kind, proposal)>>
      ELSE kids

(* lines 197-229: one pass of the improvement loop, or its end *)
ImprovePair ==
    /\ callPc = "improve"
    /\ IF RetryCond(Children[1].fitness, call.minParentFitness,
                    call.matingTries, maxMatingTries)
         THEN \E proposed \in MateOutcomes :
                LET proposalChild1 == proposed[1].bits
                    proposalChild2 == proposed[2].bits
                IN /\ range' = WithChildren(ProposalChecked(
                           ProposalChecked(Children, call.evaluator, proposalChild1),
                           call.evaluator, proposalChild2))
                   /\ evalArgs' = {c \in {proposalChild1, proposalChild2} :
                                       EvaluatesProposal(c)}
                   /\ lastStep' = [lastStep EXCEPT !.op = "improved", !.skipped =
                           Cardinality({k \in {1, 2} :
                               getVariableCount(proposed[k].bits) = 0})]
                   /\ call' = [call EXCEPT !.matingTries = (@ + 1) % 256]
                   /\ callPc' = "improve"
         ELSE /\ call' = [call EXCEPT !.matingTries =
                     IF Children[1].fitness < call.minParentFitness
                       THEN (@ + 1) % 256 ELSE @]
              /\ callPc' = "decide"
              /\ evalArgs' = {}
              /\ lastStep' = [lastStep EXCEPT !.op = "improveEnd", !.skipped = 0]
              /\ UNCHANGED range
    /\ UNCHANGED <<currentFitness, setupVars, threadVars,
                   pairVars, chromVars>>

(* the locals that are assigned before they are read in the next pass of    *)
(* the loop (lines 159, 161, 166, 196, 245, 246, 252) are not followed      *)
(* between two passes                                                       *)
BetweenPasses(locals) ==
    [locals EXCEPT !.tmpChromosome1 = 0, !.tmpChromosome2 = 0,
                   !.minParentFitness = 0, !.matingTries = 0,
                   !.child1Mutated = FALSE, !.child2Mutated = FALSE,
                   !.duplicated = [first |-> FALSE, second |-> FALSE]]

(* lines 237-243: the pair is abandoned (continue), or the pass goes on *)
AbandonOrKeep ==
    /\ callPc = "decide"
    /\ IF SkipsRestOfBody(PairAbandoned(Children[1].fitness, call.minParentFitness,
                                        badSolutionThreshold))
         THEN /\ call' = BetweenPasses(call)
              /\ callPc' = "loop"
              /\ lastStep' = [lastStep EXCEPT !.op = "abandoned", !.skipped = 0]
         ELSE /\ call' = call
              /\ callPc' = "mutate"
              /\ lastStep' = [lastStep EXCEPT !.op = "kept", !.skipped = 0]
    /\ evalArgs' = {}
    /\ UNCHANGED <<range, currentFitness, setupVars, threadVars,
                   pairVars, chromVars>>

(* mutate(rng): the chromosome with the bits it leaves; the fitness is not  *)
(* touched                                                                  *)
MutatedTo(chromosome, bits) == [chromosome EXCEPT !.bits = bits]

(* line 252: checkDuplicated; a child is a duplicate when a finalized slot  *)
(* of the range holds the same bits, the second child also when the first   *)
(* child does                                                               *)
Duplicated(bits1, bits2) ==
    [first |-> bits1 \in {range[k].bits : k \in FinalizedSlots},
     second |-> bits2 \in {range[k].bits : k \in FinalizedSlots} \/ bits2 = bits1]

(* lines 245-252: both children are mutated, mutate reports whether the     *)
(* bits changed, and the children are compared with the finalized slots     *)
MutateChildren ==
    /\ callPc = "mutate"
    /\ \E bits1 \in MutateResults(Children[1].bits),
          bits2 \in MutateResults(Children[2].bits) :
         /\ range' = WithChildren(<<MutatedTo(Children[1], bits1),
                                    MutatedTo(Children[2], bits2)>>)
         /\ call' = [call EXCEPT !.child1Mutated = bits1 # Children[1].bits,
                                 !.child2Mutated = bits2 # Children[2].bits,
                                 !.duplicated = Duplicated(bits1, bits2)]
    /\ callPc' = "advance1"
    /\ evalArgs' = {}
    /\ lastStep' = [lastStep EXCEPT !.op = "mutated", !.skipped = 0]
    /\ UNCHANGED <<currentFitness, setupVars, threadVars,
                   pairVars, chromVars>>

(* lines 255-256 and 273-274: what randomlyReset can make of a child; it is *)
(* only called when the tries ran out                                       *)
ResetOutcomes(dup, tries, bits) ==
    IF ChildReset(dup, tries, maxDuplicateEliminationTries)
      THEN RandomChromosomes ELSE {bits}

(* lines 255-260 and 273-278: a child that leaves the duplicate check is    *)
(* reset when its tries ran out, and evaluated when it was reset or mutated *)
Settled(kind, chromosome, mutated, dup, tries, resetBits) ==
    IF ChildReset(dup, tries, maxDuplicateEliminationTries)
      THEN Evaluated(kind, resetBits)
    ELSE IF mutated
      THEN Evaluated(kind, chromosome.bits)
    ELSE chromosome

(* the arguments of evaluate() in lines 255-260 and 273-278 *)
SettledArgs(chromosome, mutated, dup, tries, resetBits) ==
    IF ChildReset(dup, tries, maxDuplicateEliminationTries) THEN {resetBits}
    ELSE IF mutated THEN {chromosome.bits}
    ELSE {}

(* lines 254-270: the first child advances, or its tries are counted *)
AdvanceFirst ==
    /\ callPc = "advance1"
    /\ IF ChildAdvances(call.duplicated.first, call.child1Tries,
                        maxDuplicateEliminationTries)
         THEN \E resetBits \in ResetOutcomes(call.duplicated.first, call.child1Tries,
                                             range[call.child1It].bits) :
                /\ range' = [range EXCEPT ![call.child1It] =
                       Settled(call.evaluator, @, call.child1Mutated,
                               call.duplicated.first, call.child1Tries, resetBits)]
                /\ evalArgs' = SettledArgs(range[call.child1It], call.child1Mutated,
                                           call.duplicated.first, call.child1Tries,
                                           resetBits)
                /\ call' = [call EXCEPT !.child1It = @ + 1, !.child1Tries = 0,
                                        !.child1Mutated = FALSE]
         ELSE /\ call' = [call EXCEPT !.child1Tries =
                                          TriesAfterCheck(call.duplicated.first, @),
                                      !.child1Mutated = FALSE]
              /\ evalArgs' = {}
              /\ UNCHANGED range
    /\ callPc' = "advance2"
    /\ lastStep' = [lastStep EXCEPT !.op = "advanced", !.skipped = 0]
    /\ UNCHANGED <<currentFitness, setupVars, threadVars,
                   pairVars, chromVars>>

(* lines 272-288: the second child advances, or its tries are counted; the  *)
(* pass of the loop is over                                                 *)
AdvanceSecond ==
    /\ callPc = "advance2"
    /\ IF ChildAdvances(call.duplicated.second, call.child2Tries,
                        maxDuplicateEliminationTries)
         THEN \E resetBits \in ResetOutcomes(call.duplicated.second, call.child2Tries,
                                             range[call.child2It].bits) :
                /\ range' = [range EXCEPT ![call.child2It] =
                       Settled(call.evaluator, @, call.child2Mutated,
                               call.duplicated.second, call.child2Tries, resetBits)]
                /\ evalArgs' = SettledArgs(range[call.child2It], call.child2Mutated,
                                           call.duplicated.second, call.child2Tries,
                                           resetBits)
                /\ call' = [BetweenPasses(call) EXCEPT !.child2It = @ - 1,
                                                       !.child2Tries = 0]
         ELSE /\ call' = [BetweenPasses(call) EXCEPT !.child2Tries =
                                          TriesAfterCheck(call.duplicated.second, @)]
              /\ evalArgs' = {}
              /\ UNCHANGED range
    /\ callPc' = "loop"
    /\ lastStep' = [lastStep EXCEPT !.op = "finished", !.skipped = 0]
    /\ UNCHANGED <<currentFitness, setupVars, threadVars,
                   pairVars, chromVars>>

(* lines 456-469 and 420-451: the thread that mated the whole population    *)
(* (no worker could be created, lines 397-401) replaces the generation: the *)
(* chromosomes of nextGeneration become the current generation with the      *)
(* fitness stored in them, and the next generation is mated into the        *)
(* chromosomes that were the current generation. The second generation is   *)
(* followed for the smallest population, two chromosomes.                   *)
ReplaceGeneration ==
    /\ callPc = "returned"
    /\ call.numChildren = populationSize
    /\ populationSize = 2
    /\ call.generation < numGenerations
    /\ currentGeneration' = [k \in 1 .. Len(range) |-> range[k].bits]
    /\ currentFitness' = [k \in 1 .. Len(range) |-> range[k].fitness]
    /\ range' = [k \in 1 .. Len(range) |->
                    [bits |-> currentGeneration[k], fitness |-> currentFitness[k]]]
    /\ call' = [NoCall EXCEPT !.evaluator = call.evaluator,
                              !.numChildren = call.numChildren,
                              !.generation = call.generation + 1,
                              !.child1It = 1, !.child2It = call.numChildren]
    /\ callPc' = "loop"
    /\ evalArgs' = {}
    /\ lastStep' = NoStep
    /\ UNCHANGED <<cfgVars, mainPc, i, spawnVars, interrupted, flagVars, wpc,
                   mateVars, mateRound, arrivedRound, histVars,
                   seed, rngState, forced, setupVars, pairVars, chromVars>>

CallNext ==
    \/ CallReturn
    \/ ReplaceGeneration
    \/ DrawFirstParent
    \/ DrawSecondParent
    \/ MateParents
    \/ RemateOrFill
    \/ EvaluatePair
    \/ ImprovePair
    \/ AbandonOrKeep
    \/ MutateChildren
    \/ AdvanceFirst
    \/ AdvanceSecond

CallSpec == CallInit /\ [][CallNext]_vars

(* lines 160-162: the do-while loop is left, the second parent is another   *)
(* chromosome than the first                                                *)
DrawOtherParent ==
    \E index \in 1 .. Len(currentGeneration) :
        DrawSecondParentAt(index) /\ callPc' = "mate"

(* line 164: mateWith takes every position from the parent it is called on, *)
(* the children are copies of the two parents                               *)
MateIntoCopies == MateParentsWith(Positions)

(* Fair random draws: the thread goes on, and an outcome of a draw that is  *)
(* possible again and again is drawn at some time. Two outcomes are enough: *)
(* the second parent differs from the first, and the children of a mating   *)
(* are copies of the parents.                                               *)
FairCallSpec ==
    /\ CallSpec
    /\ WF_vars(CallNext)
    /\ SF_vars(DrawOtherParent)
    /\ SF_vars(MateIntoCopies)

(***************************************************************************)
(* Properties of the thread protocol, checked under Spec                   *)
(***************************************************************************)

(* C1: strict generation barrier. A worker that is inside mate() for its    *)
(* round g+1 implies that every participant (every spawned worker and the   *)
(* invoking thread) has finished mate() of round g and has arrived in       *)
(* waitForAllThreadsToFinishMating() at least g times.                      *)
C1_GenerationBarrier ==
    \A w \in Spawned :
        wpc[w] = "mate" =>
            \A p \in Participants : arrivedRound[p] >= mateRound[w] - 1

(* C1 witness: with two spawned workers, one of them mates in round 2 *)
C1_Witness ==
    /\ Cardinality(Spawned) >= 2
    /\ \E w \in Spawned : wpc[w] = "mate" /\ mateRound[w] = 2

(* C2: the barrier is reusable without deadlock. Stated so that a finite    *)
(* run refutes it: while some participant is blocked inside                 *)
(* waitForAllThreadsToFinishMating(), some thread can still take a step     *)
(* (otherwise that participant never returns and run() never leaves its     *)
(* generation loop, whatever the scheduling).                               *)
C2_BarrierNeverDeadlocks ==
    (\E t \in Participants : Pc(t) = "finWait") => ENABLED Next

(* C3: cancellation. Once the interrupt check has fired in mate(), run()    *)
(* goes on until it has joined the workers and raised InterruptException:   *)
(* an interrupted run that has not raised yet can always take a step.       *)
(* Stated for the runs in which every worker thread was created.            *)
C3_InterruptedRunDrains ==
    (interrupted /\ actuallySpawnedThreads = maxThreadsToSpawn) =>
        (mainPc = "raised" \/ ENABLED Next)

(* C4: disjoint writes. Every index a thread writes in mate() lies in its   *)
(* own range [offset, offset + numChildren), the ranges of the participants *)
(* are pairwise disjoint, and no index is written by two threads.           *)
C4_DisjointWrites ==
    /\ \A t \in Participants : written[t] \subseteq RangeOf(t)
    /\ mainPc # "spawn" =>
         \A s \in Participants : \A t \in Participants \ {s} :
             RangeOf(s) \cap RangeOf(t) = {}
    /\ \A s \in Participants : \A t \in Participants \ {s} :
         written[s] \cap written[t] = {}

(* C4 witness: two threads are inside mate() and both have written slots *)
C4_Witness ==
    \E s \in Participants : \E t \in Participants \ {s} :
        /\ Pc(s) = "mate" /\ Pc(t) = "mate"
        /\ written[s] # {} /\ written[t] # {}

(* C5: sequential generation update. While the invoking thread computes the *)
(* minimum fitness and runs updateCurrentGeneration(), no worker is inside  *)
(* mate().                                                                  *)
C5_SequentialUpdate ==
    mainPc = "update" => \A w \in Spawned : wpc[w] # "mate"

(* C5 witness: the update runs after a generation in which a worker mated *)
C5_Witness ==
    /\ mainPc = "update"
    /\ \E w \in Spawned : mateRound[w] >= 1 /\ written[w] # {}

(* C6: when mate() returns normally, every slot of the range              *)
(* [offset, offset + numChildren) has been finalized by this call (its      *)
(* index was advanced after the duplicate check).                           *)
C6_AllSlotsReplaced ==
    \A t \in Participants :
        (Pc(t) = "arrive" /\ ~(t = MainThread /\ interrupted)) =>
            finalized[t] = RangeOf(t)

RECURSIVE SumChildren(_)
SumChildren(S) ==
    IF S = {} THEN 0
    ELSE LET w == CHOOSE x \in S : TRUE
         IN threadArgs[w].numChildren + SumChildren(S \ {w})

(* C9: thread-creation failure is non-fatal. After the set-up loop, for     *)
(* every subset of failed pthread_create calls, the invoking thread's count *)
(* is its own share plus the shares of the failed workers, and the ranges   *)
(* of the spawned workers and of the invoking thread are pairwise disjoint  *)
(* and cover exactly 0 .. populationSize-1.                                 *)
C9_FailedSharesFolded ==
    mainPc # "spawn" =>
        /\ numChildrenMainThread =
              numChildrenPerThread + SumChildren(Workers \ Spawned)
        /\ \A s \in Participants : \A t \in Participants \ {s} :
              RangeOf(s) \cap RangeOf(t) = {}
        /\ UNION {RangeOf(t) : t \in Participants} = 0 .. (populationSize - 1)
        /\ actuallySpawnedThreads = Cardinality(Spawned)

(* C9 witness: one pthread_create failed, another succeeded, and the run    *)
(* went on into a generation                                                *)
C9_Witness ==
    /\ mainPc = "update"
    /\ actuallySpawnedThreads >= 1
    /\ actuallySpawnedThreads < maxThreadsToSpawn

(* C10: shutdown. Once run() has set killThreads, every pthread_join        *)
(* returns and run() ends: a run that has signalled the end and has not     *)
(* ended yet can always take a step.                                        *)
C10_ShutdownJoinsReturn ==
    killThreads => (mainPc \in {"done", "raised"} \/ ENABLED Next)

(* the part of C10 about the spawned workers: after killThreads is set no   *)
(* worker is inside mate() or enters it, and under FairSpec every spawned   *)
(* worker exits                                                             *)
NoMatingAfterKill ==
    killThreads => \A w \in Spawned : wpc[w] \in {"finWait", "start", "exited"}

WorkersExitAfterKill ==
    killThreads ~> (\A w \in Spawned : wpc[w] = "exited")

(***************************************************************************)
(* Properties of the fitness decisions of mate(), checked under PairSpec   *)
(***************************************************************************)

C7_EveryProducedWithinBounds ==
    \A c \in produced : WithinBounds(c)

(* C7 as amended: every chromosome produced by random initialization,       *)
(* mutate or randomlyReset has a variable count within                      *)
(* [minVariables, maxVariables]; the two children of mateWith only share    *)
(* out the parents' bits (each position is set in as many children as       *)
(* parents) and may have fewer than minVariables, even zero, or more than   *)
(* maxVariables variables.                                                  *)
C7_ProducedWithinBoundsExceptMating ==
    /\ lastOp \in {"init", "mutate", "randomlyReset"} =>
         \A c \in produced : WithinBounds(c)
    /\ lastOp = "mateWith" =>
         /\ childA \cup childB = parentA \cup parentB
         /\ childA \cap childB = parentA \cap parentB

(* C7 witness: mateWith left the second child without variables, and the   *)
(* first child has since been mutated                                       *)
C7_Witness ==
    /\ lastOp = "mutate"
    /\ childB = {}
    /\ produced = {childA}
    /\ minVariables >= 1

(***************************************************************************)
(* Properties of the constructor and of the seeding loop, checked under     *)
(* SetupSpec                                                                *)
(***************************************************************************)

(* C11: seeding. Throughout the seeding loop the chromosomes of             *)
(* nextGeneration are pairwise distinct, and the calls of evaluate() and of *)
(* addChromosomeToElite() so far are exactly the accepted chromosomes in    *)
(* the order of their acceptance; when the loop finishes nextGeneration     *)
(* holds exactly populationSize chromosomes; a step that deletes a          *)
(* duplicate candidate neither evaluates it nor adds it anywhere.           *)
C11_SeedingAcceptsDistinct ==
    /\ [](/\ \A j \in 1 .. Len(nextGeneration) : \A k \in 1 .. Len(nextGeneration) :
                j # k => nextGeneration[j] # nextGeneration[k]
          /\ evaluated = nextGeneration
          /\ elite = nextGeneration
          /\ setupPc = "seeded" => Len(nextGeneration) = populationSize)
    /\ [][rejected' # rejected =>
            UNCHANGED <<nextGeneration, evaluated, elite>>]_vars

(* C11 witness: the loop has finished with the largest population and a     *)
(* duplicate candidate was deleted on the way                               *)
C11_Witness ==
    /\ setupPc = "seeded"
    /\ Len(nextGeneration) = MaxSeedPopulation
    /\ rejected >= 1

(* C12: with numThreads <= 1 the constructor fails before any               *)
(* synchronization primitive is initialized; the object is never            *)
(* constructed, so run() never starts: no chromosome is seeded, no thread   *)
(* created, no generation run.                                              *)
C12_RejectsSingleThread ==
    numThreads <= 1 =>
        /\ setupPc \in {"construct", "logicError"}
        /\ initialized = {}
        /\ nextGeneration = <<>> /\ evaluated = <<>>
        /\ actuallySpawnedThreads = 0
        /\ \A w \in Workers : wpc[w] = "none"
        /\ mainPc = "idle"

(* C12 witness: the constructor has thrown for numThreads = 1 *)
C12_Witness ==
    numThreads = 1 /\ setupPc = "logicError"

(***************************************************************************)
(* Properties of the arguments and of the outer loop of mate(), checked     *)
(* under Spec                                                               *)
(***************************************************************************)

(* C13: per-thread ownership. No RNG instance and no Evaluator instance has *)
(* been used by more than one thread: a worker has used only the RNG built  *)
(* from its own seed and the Evaluator cloned for it, the invoking thread   *)
(* only the RNG of run() and the original Evaluator; and while a worker is  *)
(* inside mate() the set-up loop is over and every seed has been drawn, as  *)
(* successive numbers of the RNG of run().                                  *)
C13_PerThreadOwnership ==
    /\ \A r \in AllThreads :
          Cardinality(rngUsers[r]) <= 1 /\ Cardinality(evalUsers[r]) <= 1
    /\ \A w \in Workers : \A r \in AllThreads :
          /\ w \in rngUsers[r] => r = w /\ r # RunRng
          /\ w \in evalUsers[r] => r = threadArgs[w].evalObj /\ r # OriginalEvaluator
    /\ \A r \in AllThreads :
          /\ MainThread \in rngUsers[r] => r = RunRng
          /\ MainThread \in evalUsers[r] => r = OriginalEvaluator
    /\ \A w \in Spawned : wpc[w] = "mate" =>
          /\ mainPc # "spawn"
          /\ \A v \in 0 .. (maxThreadsToSpawn - 1) :
                threadArgs[v].seed = RngAfter(seed, maxThreadsToSpawn - v)

(* C13 witness: a worker and the invoking thread have both drawn from their *)
(* RNG and evaluated with their Evaluator in the same generation            *)
C13_Witness ==
    /\ Cardinality(Spawned) >= 1
    /\ \A t \in Participants :
          /\ Pc(t) = "mate" /\ lastIter[t].kind # "none"
          /\ rngUsers[RngOf(t)] = {t}
          /\ evalUsers[EvaluatorOf(t)] = {t}

(* a step in which thread t has run one iteration of the outer loop *)
IterationStep(t) ==
    lastIter'[t] # lastIter[t] /\ lastIter'[t].kind # "none"

(* the duplicate policy for one child in an iteration that reached the      *)
(* duplicate check: found is the number of consecutive duplicate findings   *)
(* for the slot, this one included                                          *)
PolicyHolds(dup, found, advanced, reset, triesAfter, runAfter) ==
    /\ advanced <=> (~dup \/ found > maxDuplicateEliminationTries)
    /\ reset <=> (dup /\ found > maxDuplicateEliminationTries)
    /\ advanced => triesAfter = 0 /\ runAfter = 0
    /\ ~advanced => /\ triesAfter = found /\ runAfter = found
                    /\ found <= maxDuplicateEliminationTries

(* C15: duplicate-elimination policy. In every iteration of the outer loop  *)
(* that reaches the duplicate check, a child's index advances if and only   *)
(* if the child was found non-duplicate or the number of its consecutive    *)
(* duplicate findings exceeds maxDuplicateEliminationTries; randomlyReset() *)
(* is called exactly in the latter case, in the iteration that advances;    *)
(* the try counter is 0 after every advance, and a child that stays has     *)
(* been found duplicate at most maxDuplicateEliminationTries times. An      *)
(* abandoned iteration advances nothing.                                    *)
C15_DuplicatePolicy ==
    [][\A t \in AllThreads : IterationStep(t) =>
          LET before == lastIter[t]
              after == lastIter'[t]
              advanced1 == child1It'[t] # child1It[t]
              advanced2 == child2It'[t] # child2It[t]
          IN IF after.kind = "abandoned"
               THEN ~advanced1 /\ ~advanced2 /\ ~after.reset1 /\ ~after.reset2
               ELSE /\ PolicyHolds(after.dup1,
                                   IF after.dup1 THEN before.run1 + 1 ELSE 0,
                                   advanced1, after.reset1,
                                   child1Tries'[t], after.run1)
                    /\ PolicyHolds(after.dup2,
                                   IF after.dup2 THEN before.run2 + 1 ELSE 0,
                                   advanced2, after.reset2,
                                   child2Tries'[t], after.run2)
                    /\ advanced1 => child1It'[t] = child1It[t] + 1
                    /\ advanced2 => child2It'[t] = child2It[t] - 1]_vars

(* C15 witness: with a positive limit, the first child has been reset after *)
(* exhausting its tries while the second child is being retried             *)
C15_Witness ==
    \E t \in Participants :
        /\ maxDuplicateEliminationTries >= 1
        /\ lastIter[t].kind = "kept"
        /\ lastIter[t].reset1
        /\ lastIter[t].dup2 /\ ~lastIter[t].reset2 /\ lastIter[t].run2 >= 1

(* C19: abandonment leaves progress unchanged. The iteration that abandons  *)
(* a pair changes neither index, neither duplicate-try counter (nor the     *)
(* count of consecutive duplicate findings) and no finalized slot: the two  *)
(* slots it wrote are not finalized; it does not mutate the children; the   *)
(* thread stays in the loop, whose condition still holds, and the next      *)
(* iteration writes the children of its parents to the same two slots.      *)
C19_AbandonmentKeepsProgress ==
    [][\A t \in AllThreads : IterationStep(t) =>
          /\ lastIter'[t].kind = "abandoned" =>
                /\ child1It'[t] = child1It[t] /\ child2It'[t] = child2It[t]
                /\ child1Tries'[t] = child1Tries[t]
                /\ child2Tries'[t] = child2Tries[t]
                /\ lastIter'[t].run1 = lastIter[t].run1
                /\ lastIter'[t].run2 = lastIter[t].run2
                /\ finalized'[t] = finalized[t]
                /\ {lastIter'[t].c1, lastIter'[t].c2} \cap finalized[t] = {}
                /\ ~lastIter'[t].mutated
                /\ (IF t = MainThread THEN mainPc' ELSE wpc'[t]) = "mate"
                /\ MateLoopCond(child1It'[t], child2It'[t])
          /\ lastIter[t].kind = "abandoned" =>
                /\ lastIter'[t].c1 = lastIter[t].c1
                /\ lastIter'[t].c2 = lastIter[t].c2]_vars

(* C19 witness: a pair has been abandoned after one slot of the range was   *)
(* finalized and while the other child had a duplicate finding counted      *)
C19_Witness ==
    \E t \in Participants :
        /\ Pc(t) = "mate"
        /\ lastIter[t].kind = "abandoned"
        /\ finalized[t] # {}
        /\ child2Tries[t] >= 1

(* C20: cancellation polling. In every iteration of the outer loop run by   *)
(* the invoking thread, abandoned ones included, check_interrupt() is       *)
(* evaluated exactly once; in an iteration run by a worker it is never      *)
(* evaluated.                                                               *)
C20_PolledOncePerIteration ==
    \A t \in Participants :
        lastIter[t].kind # "none" =>
            lastIter[t].polls = (IF t = MainThread THEN 1 ELSE 0)

(* the part of C20 that the code keeps: a worker never polls, the invoking  *)
(* thread polls exactly once in every iteration that is not abandoned and   *)
(* never in an abandoned one                                                *)
PolledUnlessAbandoned ==
    \A t \in Participants :
        lastIter[t].kind # "none" =>
            lastIter[t].polls =
                (IF t = MainThread /\ lastIter[t].kind = "kept" THEN 1 ELSE 0)

(***************************************************************************)
(* Properties of the improvement retries, checked under PairSpec            *)
(***************************************************************************)

(* C17: child ordering. From the reordering after the first evaluation up   *)
(* to mutation child1's fitness is at least child2's; no step of the        *)
(* improvement loop lowers the fitness of child1 or of child2; a proposal   *)
(* that becomes child1 is strictly fitter than the child1 it replaces,      *)
(* which becomes child2; a proposal that becomes child2 is strictly fitter  *)
(* than the child2 it replaces and leaves child1 alone; every other         *)
(* proposal changes nothing.                                                *)
C17_ChildOrdering ==
    /\ [](pairPc \in {"retry", "proposal1", "proposal2", "decide", "abandoned", "kept"}
              => child1Fitness >= child2Fitness)
    /\ [][(pairPc \in {"retry", "proposal1", "proposal2", "decide"} =>
             /\ child1Fitness' >= child1Fitness
             /\ child2Fitness' >= child2Fitness
             /\ pairPc \in {"proposal1", "proposal2"} =>
                   /\ adoption' = "child1" =>
                         /\ child1Fitness' > child1Fitness
                         /\ child2Fitness' = child1Fitness
                   /\ adoption' = "child2" =>
                         /\ child2Fitness' > child2Fitness
                         /\ child1Fitness' = child1Fitness
                   /\ adoption' = "rejected" =>
                         /\ child1Fitness' = child1Fitness
                         /\ child2Fitness' = child2Fitness)]_vars

(* C17 witness: in a retry the second proposal was promoted to child1, the  *)
(* children differ in fitness and child1 is still below the better parent   *)
C17_Witness ==
    /\ pairPc = "retry"
    /\ adoption = "child1"
    /\ rematings >= 1
    /\ child1Fitness > child2Fitness
    /\ child1Fitness < minParentFitness

C14_ScheduleIndependent ==
    \A t \in Participants :
        Pc(t) = "arrive" =>
            LET alone == MateAlone(LocalsAtEntry(t), MaxIterations)
            IN /\ ~MateLoopCond(alone.c1, alone.c2)
               /\ \A k \in RangeOf(t) : nextGeneration[k + 1] = alone.gen[k + 1]
               /\ rngState[RngOf(t)] = alone.rng

(* C14 witness: a worker was created, and it and the invoking thread have   *)
(* both returned from mate(), each with slots it finalized                  *)
C14_Witness ==
    /\ Cardinality(Spawned) >= 1
    /\ \A t \in Participants : Pc(t) = "arrive" /\ finalized[t] # {}

(* C16: range uniqueness. When mate() has returned, two slots of the        *)
(* thread's range hold the same chromosome only if one of them was reset    *)
(* with randomlyReset().                                                    *)
C16_RangeUnique ==
    \A t \in Participants :
        Pc(t) = "arrive" =>
            \A j \in RangeOf(t) : \A k \in RangeOf(t) \ {j} :
                nextGeneration[j + 1] = nextGeneration[k + 1] =>
                    (j \in forced[t] \/ k \in forced[t])

(* the part of C16 that the code keeps: among the slots that were finalized *)
(* by the call, two hold the same chromosome only if one of them was reset  *)
FinalizedUnique ==
    \A t \in Participants :
        \A j \in finalized[t] : \A k \in finalized[t] \ {j} :
            nextGeneration[j + 1] = nextGeneration[k + 1] =>
                (j \in forced[t] \/ k \in forced[t])

(***************************************************************************)
(* Further properties of the thread protocol, checked under Spec           *)
(***************************************************************************)

(* C22: no mating after terminate. Once run() has set killThreads, no       *)
(* spawned worker is inside mate() or enters it, and a worker that passes   *)
(* the start wait of runMating() from then on leaves its loop.              *)
C22_NoMatingAfterTerminate ==
    /\ [](killThreads => \A w \in Spawned : wpc[w] # "mate")
    /\ [][(\A w \in Spawned :
              (killThreads /\ wpc[w] = "start" /\ wpc'[w] # "start")
                  => wpc'[w] = "exited")]_vars
    /\ [][(killThreads => \A w \in Spawned : mateRound'[w] = mateRound[w])]_vars

(* C22 witness: killThreads is set, a worker that has mated before has      *)
(* passed the start wait and left its loop                                  *)
C22_Witness ==
    /\ killThreads
    /\ \E w \in Spawned : wpc[w] = "exited" /\ mateRound[w] >= 1

(* the rounds run() has started so far: one call of mate() by the invoking  *)
(* thread in each (line 451)                                                *)
RoundsStarted == mateRound[MainThread]

(* C24: exactly-once rounds. run() starts at most numGenerations rounds, a  *)
(* worker never mates more often than rounds were started, and an           *)
(* uninterrupted run goes on until run() has ended after numGenerations     *)
(* rounds in each of which every participant has executed mate() once: if   *)
(* no thread can take a step any more, run() has ended and every            *)
(* participant has mated numGenerations times. Stated for the runs in which *)
(* every worker thread was created.                                         *)
C24_ExactlyOnceRounds ==
    /\ RoundsStarted <= numGenerations
    /\ \A w \in Spawned : mateRound[w] <= RoundsStarted
    /\ (~interrupted /\ actuallySpawnedThreads = maxThreadsToSpawn /\ ~ENABLED Next) =>
           /\ mainPc = "done"
           /\ \A p \in Participants : mateRound[p] = numGenerations

(* the part of C24 that the code keeps: no participant mates twice in a     *)
(* round, a round that run() has completed was mated in once by every       *)
(* participant, a run that ends uninterrupted has had numGenerations        *)
(* such rounds, and no round is started after an interruption               *)
RoundsCountedOnce ==
    /\ [](RoundsStarted <= numGenerations)
    /\ [](\A w \in Spawned :
             mateRound[w] <= RoundsStarted /\ mateRound[w] >= RoundsStarted - 1)
    /\ [](mainPc \in {"update", "genLoop", "join", "done", "raised"} =>
             \A w \in Spawned : mateRound[w] = RoundsStarted)
    /\ [](mainPc = "done" => \A p \in Participants : mateRound[p] = numGenerations)
    /\ [][(interrupted => RoundsStarted' = RoundsStarted)]_vars

(***************************************************************************)
(* Properties of one call of mate(), checked under CallSpec and             *)
(* FairCallSpec                                                             *)
(***************************************************************************)

(* exactly one of the two children has no variables *)
OneEmpty(kids) ==
    ~BothEmpty(kids) /\ \E k \in {1, 2} : getVariableCount(kids[k].bits) = 0

(* C21: the evaluator is never invoked on a chromosome without variables    *)
(* during mate(). If both children of a mating are empty the same parents   *)
(* are mated again and nothing is evaluated; if exactly one is empty, both  *)
(* slots hold the other child's bits before anything is evaluated; a        *)
(* proposal child without variables is neither evaluated nor adopted.       *)
C21_NeverEvaluatesEmpty ==
    /\ []({} \notin evalArgs)
    /\ [][((callPc = "mated" /\ BothEmpty(Children)) =>
              (callPc' = "mated" /\ call' = call /\ evalArgs' = {}))]_vars
    /\ [][((callPc = "mated" /\ OneEmpty(Children)) =>
              /\ callPc' = "filled"
              /\ evalArgs' = {}
              /\ range'[call.child1It].bits = range'[call.child2It].bits
              /\ range'[call.child1It].bits \in {Children[1].bits, Children[2].bits} \ {{}})]_vars
    /\ [][((callPc = "filled" /\ callPc' = "improve") =>
              evalArgs' = {Children[1].bits, Children[2].bits})]_vars
    /\ [][(lastStep'.op = "improved" =>
              /\ Cardinality(evalArgs') <= 2 - lastStep'.skipped
              /\ range'[call.child1It].bits # {}
              /\ range'[call.child2It].bits # {})]_vars

(* C21 witness: for parents whose first mating left one child empty, a pass *)
(* of the improvement loop has skipped an empty proposal child and          *)
(* evaluated the other one                                                  *)
C21_Witness ==
    /\ lastStep.op = "improved"
    /\ lastStep.filled
    /\ lastStep.skipped = 1
    /\ evalArgs # {}

(* the fitness stored in slot k is the evaluator's value for its bits *)
FitnessIsCurrent(k) == range[k].fitness = Evaluate(call.evaluator, range[k].bits)

(* C23: fitness consistency. When mate() has returned, the fitness stored   *)
(* in every chromosome of the range is the evaluator's value for the bits   *)
(* the chromosome holds.                                                    *)
C23_FitnessConsistent ==
    callPc = "returned" => \A k \in 1 .. call.numChildren : FitnessIsCurrent(k)

(* the part of C23 that the code keeps: the fitness stored in a finalized   *)
(* slot is the evaluator's value for its bits, during the call and after it *)
FinalizedFitnessIsCurrent ==
    callPc # "idle" => \A k \in FinalizedSlots : FitnessIsCurrent(k)

(* C25: mating terminates. Under fair random draws every call of mate()     *)
(* that is not interrupted returns.                                         *)
C25_MateTerminates == (callPc = "loop") ~> (callPc = "returned")

(* the fitness stored in every chromosome of the current generation is the  *)
(* evaluator's value for its bits                                           *)
StoredFitnessIsCurrent ==
    \A k \in 1 .. Len(currentGeneration) :
        currentFitness[k] = Evaluate(call.evaluator, currentGeneration[k])

(* the part of C25 that the code keeps: a call returns when the fitness     *)
(* stored in the current generation is the evaluator's value                *)
ConsistentCallsTerminate ==
    (callPc = "loop" /\ StoredFitnessIsCurrent) ~> (callPc = "returned")

====
